---- MODULE Spec2Model ----
(***************************************************************************)
(* Model of the Unity package exporter (export_unity_package.py):          *)
(* the GUID database and its duplicate checker, the project / package      *)
(* configuration with section gating and include validation, asset         *)
(* resolution across includes, and the package / project write pipeline.   *)
(***************************************************************************)
EXTENDS Integers, Sequences, FiniteSets, TLC

(***************************************************************************)
(* Values shared by the whole model.                                       *)
(***************************************************************************)

\* Python None / "" for a GUID: both are falsy in `if guid` / `if not guid`.
NoGuid == ""
\* Python None for plugin_version.
NoVersion == <<>>

\* ProjectConfiguration._selected_sections before the first assignment (None).
NoSections == {"None"}
\* Export sections, package names and build names of the configurations.
Sections == {"x", "y"}
PackageNames == {"A", "B", "C"}

\* GUID strings that occur in stores and in asset metadata.
Guids == {"g1", "g2"}

\* Export paths in POSIX form, and the raw spellings that occur as keys of
\* the GUID store or as lookup keys of assets: one path also occurs with a
\* Windows separator.
Paths == {"A/B.cs", "C/D.dll"}
RawPaths == Paths \cup {"A\\B.cs"}
\* Keys of a JSON object in the order gen_guids.write_guid_data writes them
\* (sort_keys=True): "/" sorts before "\".
RawPathSeq == <<"A/B.cs", "A\\B.cs", "C/D.dll">>

\* posix_path: path.replace("\\", "/")
posix_path(path) == IF path = "A\\B.cs" THEN "A/B.cs" ELSE path

\* None where a filename, a package name or a project version is expected.
NoFilename == ""

\* All asset filenames in sorted order: the imported files and the files an
\* export generates next to them, which are the manifests of the packages A
\* and B at project version 1.0.0 and, for a Unity Package Manager package, its
\* package.json, its README.md and the folders of its assets.
FilenameSeq ==
  <<"A", "A/A_version-1.0.0_manifest.txt", "A/B.cs", "A/B_version-1.0.0_manifest.txt",
    "C", "C/D.dll", "README.md", "package.json">>

\* The keys assets look their GUID up with (Asset.filename_guid_lookup): the
\* export path or, for the generated files of a Unity Package Manager
\* package, the path below the package's common name.
LookupPaths ==
  Paths \cup {"A/A_version-1.0.0_manifest.txt", "A/B_version-1.0.0_manifest.txt",
              "com.a/A", "com.a/C", "com.a/README.md", "com.a/package.json"}
\* GUID strings that occur in the stores of exports with generated files.
AllGuids == Guids \cup {"g3", "g4", "g5", "g6", "g7", "g8"}

(***************************************************************************)
(* Bounds of the model.                                                    *)
(***************************************************************************)
\* Version strings are "major.minor.0": majors 1..MaxMajor, minors 0 and 1.
MaxMajor == 2
\* The largest number of (version, path) entries of an enumerated GUID store.
MaxStoreEntries == 3
\* The largest number of "includes" entries of an enumerated project, all
\* packages together, and the largest number of packages with a non-empty
\* "sections" allow-list.
MaxIncludeEdges == 3
MaxGatedPackages == 1
\* The same for the stores a run of read_guids_from_assets calls starts from.
MaxRunStoreEntries == 2
\* The largest number of assets passed to one read_guids_from_assets call.
MaxAssets == 2

Minors == {0, 1}
VersionStrings == (1..MaxMajor) \X Minors

\* packaging.version.Version ordering of two version strings: release
\* segments compared left to right.
VersionLess(v, w) == v[1] < w[1] \/ (v[1] = w[1] /\ v[2] < w[2])

\* sorted(versions, key=packaging.version.Version, reverse=True)
RECURSIVE SortedVersionsReverse(_)
SortedVersionsReverse(S) ==
  IF S = {} THEN <<>>
  ELSE LET newest == CHOOSE v \in S : \A w \in S : ~VersionLess(v, w)
       IN  <<newest>> \o SortedVersionsReverse(S \ {newest})

VARIABLES
  \* GuidDatabase.__init__ arguments (kept for reference after construction)
  guids_json, plugin_version,
  \* GuidDatabase._guids_by_path: [LookupPaths -> AllGuids \cup {NoGuid}]
  guids_by_path,
  \* DuplicateGuidsChecker._paths_by_guid: [AllGuids -> SUBSET LookupPaths]
  paths_by_guid,
  \* "new" before GuidDatabase.__init__ ran, "ready" after it
  guid_pc,
  \* the last call of GuidDatabase.read_guids_from_assets: its argument, how
  \* it ended ("not_called", "returned", "MissingGuidsError",
  \* "DuplicateGuidsError") and the missing_guid_paths of the error it raised
  read_assets, read_result, missing_guid_paths

VARIABLES
  \* the arguments ProjectConfiguration was built from, the project
  \* configuration dictionary and the version:
  \* [packages : Seq(package json), builds : Seq(build json), version]
  project_json,
  \* ProjectConfiguration._selected_sections, ._packages_by_name (the enabled
  \* packages, as indices into project_json.packages in insertion order) and
  \* ._builds (indices into project_json.builds)
  selected_sections, packages_by_name, builds,
  \* "new" before ProjectConfiguration.__init__ ran, "ready" after it
  \* returned, "failed" after it raised
  project_pc,
  \* how the last assignment to selected_sections ended: "none", "returned"
  \* or "ProjectConfigurationError"
  set_result

VARIABLES
  \* the last call of PackageConfiguration.find_assets: its receiver (an index
  \* into project_json.packages, 0 before any call) and arguments, and how it
  \* ended: "not_called", "returned" with the asset list, or
  \* "ProjectConfigurationError" with the duplicate_assets_errors it names
  find_call, find_result

VARIABLES
  \* the directories that find_assets and the package writes import from
  assets_dirs

VARIABLES
  \* the arguments of the call of package.write or package.write_upm that is
  \* followed: [package, for_upm, package_filename]
  write_call,
  \* its position, its locals and the entries of its staging directory:
  \* [pc, unity_package_file, assets, stage_index, staged, error]
  write_frame,
  \* the temporary directory of the call: "none", "exists" or "removed"
  temporary_dir,
  \* the archive files in output_dir
  archives

VARIABLES
  \* the arguments of the call of project.write: [for_upm]
  export_call,
  \* its position and locals: [pc, selected_sections, builds, maps
  \* (build_sections_and_package_name_maps), build_index, package_index,
  \* missing_guid_paths, error]
  export_frame,
  \* the calls of package.write and package.write_upm it has made, in order:
  \* [build, package_name, package_filename, error]
  package_writes

VARIABLES
  \* An Asset whose importer_metadata property is read, as its filename and
  \* its _importer_metadata, and what each read returned, in order.
  metadata_asset, metadata_reads,
  \* A metadata document handed to the static methods of Asset or to
  \* merge_ordered_dicts, the file name handed with it, and the calls made,
  \* each with the document before it, its other argument and its result.
  platform_metadata, platform_filename, platform_calls

VARIABLES
  \* The flags of a run of main, and its position: where it is, the
  \* temporary directories it has, the exception raised in it, whether it
  \* logged an error, and the exit code it returned.
  main_call, main_frame

VARIABLES
  \* What create_archive reads beside its arguments: platform.system() and
  \* the flags use_tar, timestamp, owner and group.
  archive_flags,
  \* The directory that is archived: the modification time of each of its
  \* entries (their names, types and contents do not change).
  staging_dir,
  \* The calls of create_archive made, each with its archive file name and
  \* the archive written.
  archive_calls

VARIABLES
  \* gen_guids: the guid_data dictionary, [version -> [path -> GUID]] with
  \* NoGuid for a path a version does not have and the set of the versions
  \* it has, and the calls made on it, each with the dictionary before and
  \* after it.
  guid_data, gen_calls

VARIABLES
  \* webrequest_launcher: the TestServer (where serve_forever is, the
  \* callable of service_actions, the shutdown request and the is_shut_down
  \* event), the TestRunner thread with its subprocess, and main.
  httpd, runner, launcher

VARIABLES
  \* The calls of BuildConfiguration.create_package_name_map made, each
  \* with the build configuration, the argument and what it returned or
  \* raised.
  name_map_calls

guid_vars == <<guids_json, plugin_version, guids_by_path, paths_by_guid, guid_pc>>
read_vars == <<read_assets, read_result, missing_guid_paths>>
project_vars == <<project_json, selected_sections, packages_by_name, builds,
                  project_pc, set_result>>
find_vars == <<find_call, find_result>>
write_vars == <<write_call, write_frame, temporary_dir, archives>>
export_vars == <<export_call, export_frame, package_writes>>
metadata_vars == <<metadata_asset, metadata_reads, platform_metadata, platform_filename,
                   platform_calls>>
main_vars == <<main_call, main_frame>>
archive_vars == <<archive_flags, staging_dir, archive_calls>>
gen_vars == <<guid_data, gen_calls>>
launcher_vars == <<httpd, runner, launcher>>
tool_vars == <<archive_vars, gen_vars, launcher_vars, name_map_calls>>
vars == <<guid_vars, read_vars, project_vars, find_vars, assets_dirs, write_vars,
          export_vars, metadata_vars, main_vars, tool_vars>>

(***************************************************************************)
(* DuplicateGuidsChecker and GuidDatabase.  A database value is the pair   *)
(* of GuidDatabase._guids_by_path and the checker's _paths_by_guid.        *)
(***************************************************************************)
EmptyDatabase ==
  [guids_by_path |-> [p \in LookupPaths |-> NoGuid],
   paths_by_guid |-> [g \in AllGuids |-> {}]]

\* DuplicateGuidsChecker.add_guid_and_path
add_guid_and_path(by_guid, guid, path) ==
  [by_guid EXCEPT ![guid] = @ \cup {posix_path(path)}]

\* GuidDatabase.add_guid
add_guid(db, path, guid) ==
  [guids_by_path |-> [db.guids_by_path EXCEPT ![posix_path(path)] = guid],
   paths_by_guid |-> add_guid_and_path(db.paths_by_guid, guid, path)]

\* GuidDatabase.get_guid: NoGuid stands for raising MissingGuidsError([path]).
get_guid(db, path) == db.guids_by_path[posix_path(path)]

\* conflicting_paths_by_guid with the test `len(paths) > 2`.
conflicting_paths_by_guid_over_two(by_guid) ==
  {g \in AllGuids : Cardinality(by_guid[g]) > 2}

\* DuplicateGuidsChecker.check_for_duplicates: the conflicting GUIDs; the
\* method raises DuplicateGuidsError iff the set is not empty.
conflicting_paths_by_guid(by_guid) ==
  {g \in AllGuids : Cardinality(by_guid[g]) > 1}

\* `for filename, guid in guid_map.items(): self.add_guid(posix_path(filename), guid)`
RECURSIVE AddCurrentVersion(_, _, _)
AddCurrentVersion(db, guid_map, i) ==
  IF i > Len(RawPathSeq) THEN db
  ELSE LET filename == RawPathSeq[i]
           next == IF guid_map[filename] # NoGuid
                   THEN add_guid(db, posix_path(filename), guid_map[filename])
                   ELSE db
       IN  AddCurrentVersion(next, guid_map, i + 1)

\* `for filename in guids_by_filename: if filename not in guid_map: add_guid(...)`
RECURSIVE AddOlderVersion(_, _, _, _)
AddOlderVersion(db, guid_map, guids_by_filename, i) ==
  IF i > Len(RawPathSeq) THEN db
  ELSE LET filename == RawPathSeq[i]
           next == IF guids_by_filename[filename] # NoGuid /\ guid_map[filename] = NoGuid
                   THEN add_guid(db, filename, guids_by_filename[filename])
                   ELSE db
       IN  AddOlderVersion(next, guid_map, guids_by_filename, i + 1)

\* The loop over sorted(guids_json, key=Version, reverse=True): versions at or
\* after the current version are skipped.
RECURSIVE AggregateOlderVersions(_, _, _, _, _)
AggregateOlderVersions(db, json, guid_map, current_version, versions) ==
  IF versions = <<>> THEN db
  ELSE LET version == Head(versions)
           next == IF ~VersionLess(version, current_version) THEN db
                   ELSE AddOlderVersion(db, guid_map, json[version], 1)
       IN  AggregateOlderVersions(next, json, guid_map, current_version, Tail(versions))

EmptyGuidMap == [p \in RawPaths |-> NoGuid]

\* A store is a function from the version strings it has as keys to maps
\* [RawPaths -> Guids \cup {NoGuid}], NoGuid standing for an absent key.
StoreMap(json, version) ==
  IF version \in DOMAIN json THEN json[version] ELSE EmptyGuidMap

\* GuidDatabase.__init__(duplicate_guids_checker, guids_json, plugin_version)
GuidDatabaseInit(json, version) ==
  IF DOMAIN json = {} THEN EmptyDatabase
  ELSE LET guid_map == StoreMap(json, version)
           current == AddCurrentVersion(EmptyDatabase, guid_map, 1)
       IN  IF version = NoVersion THEN current
           ELSE AggregateOlderVersions(current, json, guid_map, version,
                                       SortedVersionsReverse(DOMAIN json))

(***************************************************************************)
(* GuidDatabase.read_guids_from_assets.  An asset is seen through its      *)
(* filename_guid_lookup (a property that returns the path in POSIX form)   *)
(* and the "guid" of its importer metadata (NoGuid when it has none).      *)
(***************************************************************************)
GuidAssets == [filename_guid_lookup : Paths, guid : Guids \cup {NoGuid}]

\* ReadEachAsset with the pass abandoned at the first asset without a GUID.
RECURSIVE ReadEachAssetFailFast(_, _, _, _)
ReadEachAssetFailFast(db, missing, assets, i) ==
  IF i > Len(assets) THEN [db |-> db, missing |-> missing]
  ELSE LET asset == assets[i]
           guid == IF asset.guid # NoGuid THEN asset.guid
                   ELSE get_guid(db, asset.filename_guid_lookup)
       IN  IF guid # NoGuid
           THEN ReadEachAssetFailFast(add_guid(db, asset.filename_guid_lookup, guid),
                                      missing, assets, i + 1)
           ELSE [db |-> db, missing |-> {asset.filename_guid_lookup}]

\* ReadEachAsset with the GUID the database holds for the lookup key
\* preferred to the GUID of the asset's metadata.
RECURSIVE ReadEachAssetPreferringExisting(_, _, _, _)
ReadEachAssetPreferringExisting(db, missing, assets, i) ==
  IF i > Len(assets) THEN [db |-> db, missing |-> missing]
  ELSE LET asset == assets[i]
           metadata_guid == asset.guid
           existing_guid == get_guid(db, asset.filename_guid_lookup)
           guid == IF existing_guid # NoGuid THEN existing_guid ELSE metadata_guid
       IN  IF guid # NoGuid
           THEN ReadEachAssetPreferringExisting(
                  add_guid(db, asset.filename_guid_lookup, guid), missing, assets, i + 1)
           ELSE ReadEachAssetPreferringExisting(
                  db, missing \cup {asset.filename_guid_lookup}, assets, i + 1)

\* The loop of read_guids_from_assets over assets[i..]: the database and the
\* missing_guid_paths list (a set: MissingGuidsError sorts and dedups it).
RECURSIVE ReadEachAsset(_, _, _, _)
ReadEachAsset(db, missing, assets, i) ==
  IF i > Len(assets) THEN [db |-> db, missing |-> missing]
  ELSE LET asset == assets[i]
           metadata_guid == asset.guid
           existing_guid == get_guid(db, asset.filename_guid_lookup)
           guid == IF metadata_guid # NoGuid THEN metadata_guid ELSE existing_guid
       IN  IF guid # NoGuid
           THEN ReadEachAsset(add_guid(db, asset.filename_guid_lookup, guid),
                              missing, assets, i + 1)
           ELSE ReadEachAsset(db, missing \cup {asset.filename_guid_lookup},
                              assets, i + 1)

\* read_guids_from_assets(assets) on database db: the database afterwards,
\* how the call ended and the paths of the MissingGuidsError.
read_guids_from_assets(db, assets) ==
  LET done == ReadEachAsset(db, {}, assets, 1)
  IN  [db |-> done.db,
       missing_guid_paths |-> done.missing,
       result |-> IF done.missing # {} THEN "MissingGuidsError"
                  ELSE IF conflicting_paths_by_guid(done.db.paths_by_guid) # {}
                       THEN "DuplicateGuidsError"
                       ELSE "returned"]

ReadNotCalled ==
  /\ read_assets = <<>>
  /\ read_result = "not_called"
  /\ missing_guid_paths = {}

(***************************************************************************)
(* ConfigurationBlock, PackageConfiguration includes and the               *)
(* ProjectConfiguration.selected_sections setter.                          *)
(***************************************************************************)
\* The mutation of get_enabled that enables a block only for a section of its
\* allow-list, an empty allow-list enabling nothing.
get_enabled_when_listed(block_sections, sections) ==
  block_sections \cap sections # {}

\* ConfigurationBlock.get_enabled
get_enabled(block_sections, sections) ==
  block_sections = {} \/ block_sections \cap sections # {}

\* packages_by_name.get(name): the enabled package with that name, 0 if none.
PackageNamed(json, by_name, name) ==
  IF \E i \in 1..Len(by_name) : json.packages[by_name[i]].name = name
  THEN by_name[CHOOSE i \in 1..Len(by_name) : json.packages[by_name[i]].name = name]
  ELSE 0

\* PackageConfiguration._get_includes(recursive=False): the packages named by
\* "includes"; <<0>> stands for raising ProjectConfigurationError (a missing
\* package).
DirectIncludes(json, by_name, pkg) ==
  LET names == json.packages[pkg].includes
      found == [i \in 1..Len(names) |-> PackageNamed(json, by_name, names[i])]
  IN  IF \E i \in 1..Len(found) : found[i] = 0 THEN <<0>> ELSE found

\* check_circular_references_in_includes looking only at the package's own
\* include list, without descending into the included packages.
check_circular_references_not_descending(json, by_name, pkg, parents) ==
  LET includes == DirectIncludes(json, by_name, pkg)
  IN  /\ includes # <<0>>
      /\ \A i \in 1..Len(includes) : includes[i] # pkg

\* PackageConfiguration.check_circular_references_in_includes(parents):
\* TRUE if it returns, FALSE if it raises ProjectConfigurationError.
RECURSIVE check_circular_references_in_includes(_, _, _, _)
check_circular_references_in_includes(json, by_name, pkg, parents) ==
  LET parent_names == {json.packages[parents[i]].name : i \in 1..Len(parents)}
  IN  IF json.packages[pkg].name \in parent_names THEN FALSE
      ELSE LET includes == DirectIncludes(json, by_name, pkg)
           IN  IF includes = <<0>> THEN FALSE
               ELSE \A i \in 1..Len(includes) :
                      check_circular_references_in_includes(
                        json, by_name, includes[i], Append(parents, pkg))

\* RestorePrevious restoring _selected_sections only.
RestoreSectionsOnly(previous, current) ==
  [current EXCEPT !.selected_sections = previous.selected_sections]

\* The except clause of the setter: restore the previous fields.
RestorePrevious(previous, current) ==
  [current EXCEPT !.selected_sections = previous.selected_sections,
                  !.packages_by_name = previous.packages_by_name]

\* Indices of the blocks of a list enabled for `sections`, in list order.
EnabledBlocks(blocks, sections) ==
  SelectSeq([i \in 1..Len(blocks) |-> i],
            LAMBDA i : get_enabled(blocks[i].sections, sections))

\* ProjectConfiguration.selected_sections = sections, on the fields `config`:
\* the fields afterwards and whether ProjectConfigurationError was raised.
set_selected_sections(json, config, sections) ==
  IF sections = config.selected_sections
  THEN [config |-> config, raised |-> FALSE]
  ELSE
    LET enabled == EnabledBlocks(json.packages, sections)
        names == [i \in 1..Len(enabled) |-> json.packages[enabled[i]].name]
        duplicate_package_names ==
          {n \in PackageNames : Cardinality({i \in 1..Len(names) : names[i] = n}) > 1}
    IN  IF duplicate_package_names # {}
        THEN [config |-> config, raised |-> TRUE]
        ELSE
          LET assigned == [config EXCEPT !.selected_sections = sections,
                                         !.packages_by_name = enabled]
          IN  IF \A i \in 1..Len(enabled) :
                   check_circular_references_in_includes(json, enabled, enabled[i], <<>>)
              THEN [config |-> [assigned EXCEPT
                                  !.builds = EnabledBlocks(json.builds, sections)],
                    raised |-> FALSE]
              ELSE [config |-> RestorePrevious(config, assigned), raised |-> TRUE]

\* The fields of a ProjectConfiguration before the first assignment.
NewProjectFields ==
  [selected_sections |-> NoSections, packages_by_name |-> <<>>, builds |-> <<>>]

ProjectFields ==
  [selected_sections |-> selected_sections, packages_by_name |-> packages_by_name,
   builds |-> builds]

(***************************************************************************)
(* Assets, their effective importer metadata, and                          *)
(* PackageConfiguration.find_assets.  An importer metadata document is     *)
(* seen through its "guid" and the "enabled" flags of the platforms Any    *)
(* and Editor of its PluginImporter.platformData (serializedVersion 1).    *)
(***************************************************************************)
\* DEFAULT_METADATA_TEMPLATE, DEFAULT_IMPORTER_METADATA_TEMPLATE: no GUID, no
\* platform enabled.
DefaultMetadata == [guid |-> NoGuid, Any |-> 0, Editor |-> 0]

\* The documents AssetConfiguration.importer_metadata gives the import groups.
ImporterMetadata ==
  {DefaultMetadata, [guid |-> NoGuid, Any |-> 1, Editor |-> 0],
   [guid |-> NoGuid, Any |-> 1, Editor |-> 1]}

\* The imported files in sorted order.
PathSeq == <<"A/B.cs", "C/D.dll">>

\* The directories assets are imported from: the GUID in the metadata file
\* next to each imported file (NoGuid if the file has no metadata file),
\* whether a package's "readme" file is there, and what is found at a
\* package's "documentation" path: "absent", "file", "dir" (with index.md) or
\* "dir_without_index".
NoMetadataFiles ==
  [metadata_files |-> [p \in Paths |-> NoGuid], readme |-> FALSE,
   documentation |-> "absent"]

\* Asset(filename, filename_absolute, importer_metadata, filename_guid_lookup,
\* is_folder): "" stands for filename_guid_lookup=None.
Asset(filename, importer_metadata, filename_guid_lookup, is_folder) ==
  [filename |-> filename,
   filename_guid_lookup |-> IF filename_guid_lookup = "" THEN filename
                            ELSE filename_guid_lookup,
   importer_metadata_original |-> importer_metadata,
   is_folder |-> is_folder]

\* Asset.apply_any_platform_selection: an enabled Any platform sets the
\* "enabled" flag of every platform.
apply_any_platform_selection(importer_metadata) ==
  IF importer_metadata.Any = 0 THEN importer_metadata
  ELSE [importer_metadata EXCEPT !.Editor = importer_metadata.Any]

\* Asset.importer_metadata: the document with the export path label added
\* and the platform selection applied.
importer_metadata(asset) ==
  LET metadata == apply_any_platform_selection(asset.importer_metadata_original)
  IN  [labels |-> {asset.filename}, guid |-> metadata.guid,
       Any |-> metadata.Any, Editor |-> metadata.Editor]

\* Asset.sorted_by_filename: a stable sort by filename.
RECURSIVE SortedFrom(_, _)
SortedFrom(assets, i) ==
  IF i > Len(FilenameSeq) THEN <<>>
  ELSE SelectSeq(assets, LAMBDA asset : asset.filename = FilenameSeq[i])
         \o SortedFrom(assets, i + 1)

sorted_by_filename(assets) == SortedFrom(assets, 1)

\* AssetConfiguration.override_metadata, seen through its "guid": an import
\* group without "override_metadata" has the empty dictionary.
override_metadata(asset_config) ==
  IF "override_metadata" \in DOMAIN asset_config THEN asset_config.override_metadata
  ELSE [guid |-> NoGuid]

\* AssetConfiguration.find_assets: one asset per file the group's paths match
\* (the files found are those named by `paths`), sorted by filename, each
\* with the metadata of its metadata file if it has one and with the group's
\* importer metadata otherwise, and the group's override_metadata merged
\* into it.
asset_config_find_assets(asset_config, dirs) ==
  LET matching_files == SelectSeq(PathSeq, LAMBDA p : p \in asset_config.paths)
      asset_metadata(filename) ==
        IF dirs.metadata_files[filename] # NoGuid
        THEN [DefaultMetadata EXCEPT !.guid = dirs.metadata_files[filename]]
        ELSE asset_config.importer_metadata
      overridden(filename) ==
        [asset_metadata(filename) EXCEPT
           !.guid = IF override_metadata(asset_config).guid # NoGuid
                    THEN override_metadata(asset_config).guid ELSE @]
  IN  [i \in 1..Len(matching_files) |->
         Asset(matching_files[i], overridden(matching_files[i]), "", FALSE)]

\* The elements of `more` that `list` does not have, appended to `list`:
\* dict.update on an insertion-ordered dictionary keyed by package name.
UpdateIncluded(list, more) ==
  list \o SelectSeq(more, LAMBDA p : \A k \in 1..Len(list) : list[k] # p)

\* PackageConfiguration._get_includes(recursive=True), the `includes`
\* property: the transitively included packages in dictionary order; <<0>>
\* stands for raising ProjectConfigurationError.
RECURSIVE get_includes(_, _, _)
RECURSIVE IncludesFrom(_, _, _, _, _)
get_includes(json, by_name, pkg) ==
  LET direct == DirectIncludes(json, by_name, pkg)
  IN  IF direct = <<0>> THEN <<0>>
      ELSE IncludesFrom(json, by_name, direct, 1, <<>>)

IncludesFrom(json, by_name, direct, i, included) ==
  IF i > Len(direct) THEN included
  ELSE LET package == direct[i]
           nested == get_includes(json, by_name, package)
       IN  IF nested = <<0>> THEN <<0>>
           ELSE IncludesFrom(json, by_name, direct, i + 1,
                             UpdateIncluded(UpdateIncluded(included, <<package>>), nested))

\* The concatenation of a sequence of sequences.
RECURSIVE Extend(_, _)
Extend(lists, i) ==
  IF i > Len(lists) THEN <<>> ELSE lists[i] \o Extend(lists, i + 1)

\* differing_metadata_packages with the test `len(package_and_assets) <= 2`.
differing_metadata_packages_over_two(package_and_assets) ==
  IF Len(package_and_assets) <= 2 THEN {}
  ELSE {package_and_assets[i].package_name : i \in
          {k \in 1..Len(package_and_assets) :
             \/ k > 1 /\ importer_metadata(package_and_assets[k - 1].asset)
                           # importer_metadata(package_and_assets[k].asset)
             \/ k < Len(package_and_assets)
                  /\ importer_metadata(package_and_assets[k].asset)
                       # importer_metadata(package_and_assets[k + 1].asset)}}

\* The loop of find_assets over the (package, asset) pairs of one filename:
\* the packages of every two consecutive pairs whose effective importer
\* metadata differ.
differing_metadata_packages(package_and_assets) ==
  IF Len(package_and_assets) <= 1 THEN {}
  ELSE {package_and_assets[i].package_name : i \in
          {k \in 1..Len(package_and_assets) :
             \/ k > 1 /\ importer_metadata(package_and_assets[k - 1].asset)
                           # importer_metadata(package_and_assets[k].asset)
             \/ k < Len(package_and_assets)
                  /\ importer_metadata(package_and_assets[k].asset)
                       # importer_metadata(package_and_assets[k + 1].asset)}}

\* The mutation of the deduplication that keeps the last asset found for a
\* filename.
last_asset_of_filename(package_and_assets) ==
  package_and_assets[Len(package_and_assets)].asset

\* package_and_assets[0][1], the asset find_assets keeps for a filename.
first_asset_of_filename(package_and_assets) ==
  package_and_assets[1].asset

FindAssetsRaised(errors) ==
  [ended |-> "ProjectConfigurationError", errors |-> errors, assets |-> <<>>]

\* PackageConfiguration.find_assets(assets_dirs, check_for_duplicates, for_upm)
\* of package `pkg` of the project with fields `config`.
RECURSIVE find_assets(_, _, _, _, _, _)
find_assets(json, config, dirs, pkg, check_for_duplicates, for_upm) ==
  LET package == json.packages[pkg]
      enabled_imports == EnabledBlocks(package.imports, config.selected_sections)
      own_assets ==
        Extend([i \in 1..Len(enabled_imports) |->
                  asset_config_find_assets(package.imports[enabled_imports[i]],
                                           dirs)], 1)
      own == IF enabled_imports = <<>> THEN <<>>
             ELSE <<[package_name |-> package.name, assets |-> own_assets]>>
      includes == IF for_upm THEN <<>>
                  ELSE get_includes(json, config.packages_by_name, pkg)
  IN  IF includes = <<0>> THEN FindAssetsRaised({})
      ELSE
        LET found == [i \in 1..Len(includes) |->
                        find_assets(json, config, dirs, includes[i], FALSE, FALSE)]
        IN  IF \E i \in 1..Len(found) : found[i].ended # "returned"
            THEN FindAssetsRaised({})
            ELSE
              LET assets_by_package_name ==
                    own \o [i \in 1..Len(includes) |->
                              [package_name |-> json.packages[includes[i]].name,
                               assets |-> found[i].assets]]
                  package_and_assets ==
                    Extend([i \in 1..Len(assets_by_package_name) |->
                              [k \in 1..Len(assets_by_package_name[i].assets) |->
                                 [package_name |-> assets_by_package_name[i].package_name,
                                  asset |-> assets_by_package_name[i].assets[k]]]], 1)
                  package_and_assets_by_filename ==
                    [filename \in Paths |->
                       SelectSeq(package_and_assets,
                                 LAMBDA pa : pa.asset.filename = filename)]
                  duplicate_assets_errors ==
                    {[filename |-> filename,
                      packages |-> differing_metadata_packages(
                                     package_and_assets_by_filename[filename])] :
                       filename \in {f \in Paths : differing_metadata_packages(
                                       package_and_assets_by_filename[f]) # {}}}
                  first_assets ==
                    SelectSeq(PathSeq,
                              LAMBDA f : package_and_assets_by_filename[f] # <<>>)
                  found_assets ==
                    sorted_by_filename(
                      [i \in 1..Len(first_assets) |->
                         first_asset_of_filename(
                           package_and_assets_by_filename[first_assets[i]])])
              IN  IF check_for_duplicates /\ duplicate_assets_errors # {}
                  THEN FindAssetsRaised(duplicate_assets_errors)
                  ELSE [ended |-> "returned", errors |-> {},
                        assets |-> SelectSeq(found_assets,
                                     LAMBDA asset : asset.filename \notin package.exclude_paths)]

(***************************************************************************)
(* PackageConfiguration.write and PackageConfiguration.write_upm.  A call  *)
(* is followed through the record w of its position, its locals and what   *)
(* it has done to the file system and to the GUID database:                *)
(*   pc, unity_package_file, assets, stage_index, error,                   *)
(*   temporary_dir ("none", "exists" or "removed"),                        *)
(*   staged (the entries of the staging directory, in the order written),  *)
(*   db (the GuidDatabase), archives (the archive files in output_dir).    *)
(* `fail` says whether the file system operation of a step fails.          *)
(***************************************************************************)
\* os.path.join
path_join(directory, filename) == directory \o "/" \o filename

\* os.path.dirname of an asset filename
dirname(filename) ==
  CASE filename \in {"A/B.cs", "A/A_version-1.0.0_manifest.txt",
                     "A/B_version-1.0.0_manifest.txt"} -> "A"
    [] filename = "C/D.dll" -> "C"
    [] OTHER -> ""

\* PackageConfiguration.manifest_filename: version_handler_filename of
\* <manifest_path>/<package_name>.txt with the version and manifest fields.
manifest_filename(json, pkg) ==
  LET package == json.packages[pkg]
  IN  IF package.manifest_path # NoFilename /\ json.version # NoFilename
      THEN path_join(package.manifest_path,
                     package.name \o "_version-" \o json.version \o "_manifest.txt")
      ELSE NoFilename

\* PackageConfiguration.tarball_name
tarball_name(json, pkg) ==
  LET package == json.packages[pkg]
  IN  IF package.common_package_name = NoFilename \/ json.version = NoFilename
      THEN NoFilename
      ELSE package.common_package_name \o "-" \o json.version \o ".tgz"

\* No exception, and an exception of a type; a MissingGuidsError carries the
\* paths without a GUID.
NoError == [type |-> "", missing_guid_paths |-> {}]
Raised(type) == [type |-> type, missing_guid_paths |-> {}]

\* What read_guids_from_assets reads of a list of assets.
guid_and_lookup(assets) ==
  [i \in 1..Len(assets) |->
     [filename_guid_lookup |-> assets[i].filename_guid_lookup,
      guid |-> importer_metadata(assets[i]).guid]]

\* The exception leaves the try block without passing through the finally
\* clause.
after_failure_without_cleanup(w, error) ==
  [w EXCEPT !.pc = "raised", !.error = error]

\* An exception inside the try block of write or write_upm: control passes
\* to the finally clause with the exception pending.
after_failure(w, error) ==
  [w EXCEPT !.pc = "rmtree", !.error = error]

\* The archive is created directly after read_guids_from_assets.
after_read_guids_create_archive(w) == [w EXCEPT !.pc = "create_archive"]

\* After read_guids_from_assets has returned the assets are staged.
after_read_guids(w) == [w EXCEPT !.pc = "stage"]

\* `package_filename or self.name` (`or self.tarball_name`), os.path.join with
\* output_dir, which raises TypeError for None, and tempfile.mkdtemp(), all
\* before the try block.
write_mkdtemp(json, call, w, fail) ==
  LET default_filename == IF call.for_upm THEN tarball_name(json, call.package)
                          ELSE json.packages[call.package].name
      package_filename == IF call.package_filename # NoFilename
                          THEN call.package_filename ELSE default_filename
  IN  IF package_filename = NoFilename
      THEN [w EXCEPT !.pc = "raised", !.error = Raised("TypeError")]
      ELSE IF fail
           THEN [w EXCEPT !.pc = "raised", !.error = Raised("OSError")]
           ELSE [w EXCEPT !.pc = "makedirs", !.temporary_dir = "exists",
                          !.unity_package_file = package_filename,
                          !.assets = <<>>, !.stage_index = 1, !.staged = <<>>,
                          !.error = NoError]

\* os.makedirs of generated_assets_dir and staging_dir
write_makedirs(w, fail) ==
  IF fail THEN after_failure(w, Raised("OSError"))
  ELSE [w EXCEPT !.pc = "find_assets"]

\* assets = self.find_assets(assets_dirs) (for_upm=True in write_upm)
write_find_assets(json, config, dirs, call, w, fail) ==
  LET found == find_assets(json, config, dirs, call.package, TRUE, call.for_upm)
  IN  IF fail THEN after_failure(w, Raised("OSError"))
      ELSE IF found.ended # "returned"
           THEN after_failure(w, Raised("ProjectConfigurationError"))
           ELSE [w EXCEPT !.assets = found.assets,
                          !.pc = IF call.for_upm THEN "write_upm_manifest"
                                 ELSE "write_manifest"]

\* PackageConfiguration.write_upm_manifest: whether it raises
\* ProjectConfigurationError, and the asset it returns.
write_upm_manifest(json, config, pkg) ==
  LET package == json.packages[pkg]
      direct == DirectIncludes(json, config.packages_by_name, pkg)
      missing_deps ==
        IF direct = <<0>> THEN <<>>
        ELSE SelectSeq(direct,
               LAMBDA include : /\ json.packages[include].export_upm = 1
                                /\ json.packages[include].common_package_name = NoFilename)
  IN  IF package.common_package_name = NoFilename \/ direct = <<0>>
         \/ missing_deps # <<>>
      THEN [raised |-> TRUE, manifest_asset |-> <<>>]
      ELSE [raised |-> FALSE,
            manifest_asset |->
              <<Asset("package.json", DefaultMetadata,
                      path_join(package.common_package_name, "package.json"),
                      FALSE)>>]

\* manifest_asset = self.write_upm_manifest(generated_assets_dir) and the
\* append to assets.
write_write_upm_manifest(json, config, call, w, fail) ==
  LET written == write_upm_manifest(json, config, call.package)
  IN  IF fail THEN after_failure(w, Raised("OSError"))
      ELSE IF written.raised
           THEN after_failure(w, Raised("ProjectConfigurationError"))
           ELSE [w EXCEPT !.assets = @ \o written.manifest_asset,
                          !.pc = "write_manifest"]

\* PackageConfiguration.write_manifest(output_dir, assets): <<>> for None,
\* else the asset of `assets` with the manifest's filename or a new asset.
write_manifest(json, pkg, assets) ==
  LET manifest == manifest_filename(json, pkg)
      manifest_asset == SelectSeq(assets, LAMBDA asset : asset.filename = manifest)
  IN  IF manifest = NoFilename THEN <<>>
      ELSE IF manifest_asset # <<>> THEN <<manifest_asset[1]>>
           ELSE <<Asset(manifest, DefaultMetadata, "", FALSE)>>

\* manifest_asset = self.write_manifest(generated_assets_dir, assets) and the
\* append to assets; a package without a manifest writes no file.
write_write_manifest(json, call, w, fail) ==
  IF fail /\ manifest_filename(json, call.package) # NoFilename
  THEN after_failure(w, Raised("OSError"))
  ELSE [w EXCEPT !.assets = @ \o write_manifest(json, call.package, w.assets),
                 !.pc = IF call.for_upm THEN "upm_documents"
                        ELSE "include_manifests"]

\* The loop of write over self.includes: each included package's own
\* find_assets, which checks for duplicates, and its write_manifest.
write_include_manifests(json, config, dirs, call, w, fail) ==
  LET includes == get_includes(json, config.packages_by_name, call.package)
  IN  IF includes = <<0>> THEN after_failure(w, Raised("ProjectConfigurationError"))
      ELSE
        LET found == [i \in 1..Len(includes) |->
                        find_assets(json, config, dirs, includes[i], TRUE, FALSE)]
        IN  IF fail /\ includes # <<>> THEN after_failure(w, Raised("OSError"))
            ELSE IF \E i \in 1..Len(found) : found[i].ended # "returned"
                 THEN after_failure(w, Raised("ProjectConfigurationError"))
                 ELSE [w EXCEPT
                         !.assets = @ \o Extend([i \in 1..Len(includes) |->
                                        write_manifest(json, includes[i],
                                                       found[i].assets)], 1),
                         !.pc = "read_guids"]

\* The folders above a file: the `while filepath` loop of write_upm.
RECURSIVE parent_folders(_)
parent_folders(filename) ==
  LET filepath == dirname(filename)
  IN  IF filepath = "" THEN {} ELSE {filepath} \cup parent_folders(filepath)

\* The folder assets write_upm adds, here in sorted order (the code iterates
\* over a set).
folder_assets(common_package_name, assets) ==
  LET folders == UNION {parent_folders(assets[i].filename) : i \in 1..Len(assets)}
      ordered == SelectSeq(FilenameSeq, LAMBDA folder : folder \in folders)
  IN  [i \in 1..Len(ordered) |->
         Asset(ordered[i], DefaultMetadata,
               path_join(common_package_name, ordered[i]), TRUE)]

\* write_upm from "Move README.md, CHANGELOG.md and LICENSE.md to root
\* folder" to the folder assets; of the three documents the readme is
\* modelled.
write_upm_documents(json, dirs, call, w) ==
  LET package == json.packages[call.package]
      readme == IF package.readme = NoFilename THEN <<>>
                ELSE <<Asset("README.md", DefaultMetadata,
                             path_join(package.common_package_name, "README.md"),
                             FALSE)>>
      assets == w.assets \o readme
  IN  IF package.readme # NoFilename /\ ~dirs.readme
      THEN after_failure(w, Raised("ProjectConfigurationError"))
      ELSE [w EXCEPT !.assets = assets \o folder_assets(package.common_package_name,
                                                        assets),
                     !.pc = "read_guids"]

\* guid_database.read_guids_from_assets(assets)
write_read_guids(w) ==
  LET read == read_guids_from_assets(w.db, guid_and_lookup(w.assets))
      populated == [w EXCEPT !.db = read.db]
  IN  IF read.result = "MissingGuidsError"
      THEN after_failure(populated,
                         [type |-> "MissingGuidsError",
                          missing_guid_paths |-> read.missing_guid_paths])
      ELSE IF read.result = "DuplicateGuidsError"
           THEN after_failure(populated, Raised("DuplicateGuidsError"))
           ELSE after_read_guids(populated)

\* One iteration of `for asset in Asset.sorted_by_filename(assets)`:
\* asset.write (which skips a folder) or asset.write_upm with the GUID of
\* guid_database.get_guid; after the last asset the loop is left.
write_stage(call, w, fail) ==
  LET sorted == sorted_by_filename(w.assets)
      next_pc == IF call.for_upm THEN "documentation" ELSE "create_archive"
  IN  IF w.stage_index > Len(sorted) THEN [w EXCEPT !.pc = next_pc]
      ELSE
        LET asset == sorted[w.stage_index]
            guid == get_guid(w.db, asset.filename_guid_lookup)
            staged == IF asset.is_folder /\ ~call.for_upm THEN w.staged
                      ELSE Append(w.staged, [filename |-> asset.filename,
                                             guid |-> guid])
        IN  IF guid = NoGuid
            THEN after_failure(w, [type |-> "MissingGuidsError",
                                   missing_guid_paths |-> {asset.filename_guid_lookup}])
            ELSE IF fail THEN after_failure(w, Raised("OSError"))
                 ELSE [w EXCEPT !.staged = staged, !.stage_index = @ + 1,
                                !.pc = IF w.stage_index = Len(sorted) THEN next_pc
                                       ELSE "stage"]

\* write_upm, "Copy documents to Documentation~ folder": find_in_dirs gives
\* None for a path that is not found and os.path.isfile(None) raises
\* TypeError.
write_documentation(json, dirs, call, w, fail) ==
  IF json.packages[call.package].documentation = NoFilename
  THEN [w EXCEPT !.pc = "create_archive"]
  ELSE CASE dirs.documentation = "absent" -> after_failure(w, Raised("TypeError"))
         [] dirs.documentation = "dir_without_index" ->
              after_failure(w, Raised("ProjectConfigurationError"))
         [] OTHER -> IF fail THEN after_failure(w, Raised("OSError"))
                     ELSE [w EXCEPT !.pc = "create_archive"]

\* PackageConfiguration.create_archive(unity_package_file, staging_dir, timestamp)
write_create_archive(w, fail) ==
  IF fail THEN after_failure(w, Raised("OSError"))
  ELSE [w EXCEPT !.archives = @ \cup {w.unity_package_file}, !.pc = "rmtree"]

\* finally: shutil.rmtree(temporary_dir), then the return or the pending
\* exception.  The removal itself is taken to succeed.
write_rmtree(w) ==
  [w EXCEPT !.temporary_dir = "removed",
            !.pc = IF w.error = NoError THEN "returned" ELSE "raised"]

\* One step of package.write (call.for_upm false) or package.write_upm.
write_step(json, config, dirs, call, w, fail) ==
  CASE w.pc = "called" -> write_mkdtemp(json, call, w, fail)
    [] w.pc = "makedirs" -> write_makedirs(w, fail)
    [] w.pc = "find_assets" -> write_find_assets(json, config, dirs, call, w, fail)
    [] w.pc = "write_upm_manifest" -> write_write_upm_manifest(json, config, call, w, fail)
    [] w.pc = "write_manifest" -> write_write_manifest(json, call, w, fail)
    [] w.pc = "include_manifests" ->
         write_include_manifests(json, config, dirs, call, w, fail)
    [] w.pc = "upm_documents" -> write_upm_documents(json, dirs, call, w)
    [] w.pc = "read_guids" -> write_read_guids(w)
    [] w.pc = "stage" -> write_stage(call, w, fail)
    [] w.pc = "documentation" -> write_documentation(json, dirs, call, w, fail)
    [] w.pc = "create_archive" -> write_create_archive(w, fail)
    [] w.pc = "rmtree" -> write_rmtree(w)
    [] OTHER -> w

\* A whole call of package.write or package.write_upm, the file system
\* operation of step `fail_at` failing ("none": no operation fails).  Each
\* step's record is drawn from a singleton set, so that it is computed once.
RECURSIVE package_write(_, _, _, _, _, _)
package_write(json, config, dirs, call, w, fail_at) ==
  IF w.pc \in {"returned", "raised"} THEN w
  ELSE CHOOSE ended \in
         {package_write(json, config, dirs, call, next, fail_at) :
            next \in {write_step(json, config, dirs, call, w, w.pc = fail_at)}} :
         TRUE

(***************************************************************************)
(* BuildConfiguration and ProjectConfiguration.write.                      *)
(***************************************************************************)
\* regular_expression.sub(replacement, string) for the patterns "^<name>$".
re_sub(match, replacement, string) ==
  IF match = "^" \o string \o "$" THEN replacement ELSE string

\* BuildConfiguration.apply_package_name_replacements, from replacement i on.
RECURSIVE apply_package_name_replacements(_, _, _)
apply_package_name_replacements(replacements, i, package_name) ==
  IF i > Len(replacements) THEN package_name
  ELSE apply_package_name_replacements(
         replacements, i + 1,
         re_sub(replacements[i].match, replacements[i].replacement, package_name))

\* The dictionary comprehension of ProjectConfiguration.write: the exported
\* enabled packages with name and pkg.name or pkg.tarball_name.
package_name_to_output_filename(json, config, for_upm) ==
  LET exported == SelectSeq(config.packages_by_name,
                    LAMBDA pkg : IF for_upm THEN json.packages[pkg].export_upm = 1
                                 ELSE json.packages[pkg].export = 1)
  IN  [i \in 1..Len(exported) |->
         [package_name |-> json.packages[exported[i]].name,
          package_filename |-> IF for_upm THEN tarball_name(json, exported[i])
                               ELSE json.packages[exported[i]].name]]

\* BuildConfiguration.create_package_name_map(package_names_map): sub raises
\* TypeError for a filename that is None; the dictionary is keyed by the
\* unique old names, so no old name has more than one new name.
create_package_name_map(build, package_names_map) ==
  IF build.package_name_replacements # <<>>
     /\ \E i \in 1..Len(package_names_map) :
          package_names_map[i].package_filename = NoFilename
  THEN [error |-> Raised("TypeError"), package_name_map |-> <<>>]
  ELSE [error |-> NoError,
        package_name_map |->
          [i \in 1..Len(package_names_map) |->
             [package_name |-> package_names_map[i].package_name,
              package_filename |->
                apply_package_name_replacements(
                  build.package_name_replacements, 1,
                  package_names_map[i].package_filename)]]]

\* The first loop of ProjectConfiguration.write, from build `build_index` of
\* `enabled_builds` on: the exception raised if any, the fields of the project
\* and build_sections_and_package_name_maps.
RECURSIVE package_name_maps(_, _, _, _, _, _, _)
package_name_maps(json, config, sections, for_upm, enabled_builds, build_index, maps) ==
  IF build_index > Len(enabled_builds)
  THEN [error |-> NoError, config |-> config, maps |-> maps]
  ELSE
    LET build == json.builds[enabled_builds[build_index]]
        build_sections == sections \cup build.enabled_sections
        assigned == set_selected_sections(json, config, build_sections)
        created == create_package_name_map(
                     build, package_name_to_output_filename(json, assigned.config,
                                                            for_upm))
    IN  IF assigned.raised
        THEN [error |-> Raised("ProjectConfigurationError"),
              config |-> assigned.config, maps |-> maps]
        ELSE IF created.error # NoError
             THEN [error |-> created.error, config |-> assigned.config, maps |-> maps]
             ELSE package_name_maps(
                    json, assigned.config, sections, for_upm, enabled_builds,
                    build_index + 1,
                    Append(maps, [build |-> enabled_builds[build_index],
                                  build_sections |-> build_sections,
                                  package_name_map |-> created.package_name_map]))

\* build_indices_by_package_filename[filename]
build_indices_by_package_filename(maps, filename) ==
  Extend([i \in 1..Len(maps) |->
            [k \in 1..Len(SelectSeq(maps[i].package_name_map,
                            LAMBDA entry : entry.package_filename = filename)) |->
               maps[i].build]], 1)

\* `if len(build_indices) > 1`
exported_by_multiple_builds(build_indices) == Len(build_indices) > 1

\* The filenames of duplicate_filename_errors.
duplicate_filenames(maps) ==
  {filename \in UNION {{maps[i].package_name_map[k].package_filename :
                          k \in 1..Len(maps[i].package_name_map)} :
                        i \in 1..Len(maps)} :
     exported_by_multiple_builds(build_indices_by_package_filename(maps, filename))}

\* The except clause keeping the paths of the last MissingGuidsError only.
extend_missing_guid_paths_last_only(paths, error_paths) == error_paths

\* missing_guid_paths.extend(missing_guids_error.missing_guid_paths); the
\* list is a set here, MissingGuidsError sorts and dedups it.
extend_missing_guid_paths(paths, error_paths) == paths \cup error_paths

\* A finally clause that leaves the sections of the last build selected.
keep_build_sections(json, config, sections) == config

\* finally: self.selected_sections = selected_sections
restore_selected_sections(json, config, sections) ==
  set_selected_sections(json, config, sections).config

(***************************************************************************)
(* GUID stores enumerated for the constructor.                             *)
(***************************************************************************)
StoreCells == VersionStrings \X RawPaths

\* The store with the given (version, path) -> guid entries.
StoreOf(entries) ==
  [v \in {c[1] : c \in DOMAIN entries} |->
     [p \in RawPaths |-> IF <<v, p>> \in DOMAIN entries THEN entries[<<v, p>>] ELSE NoGuid]]

Stores(max_entries) ==
  {StoreOf(e) : e \in UNION {[cells -> Guids] :
                   cells \in {c \in SUBSET StoreCells : Cardinality(c) <= max_entries}}}

(***************************************************************************)
(* Unity asset metadata documents.  A document is the tree the YAML and    *)
(* JSON loaders build: a node is None, an int, a bool, a str, a list of    *)
(* nodes or an insertion-ordered dictionary (every dictionary the loaders  *)
(* build is an OrderedDict; the empty plain dictionaries of the templates  *)
(* compare equal to empty OrderedDicts).                                   *)
(***************************************************************************)
None == [kind |-> "none"]
Integer(value) == [kind |-> "int", value |-> value]
Boolean(value) == [kind |-> "bool", value |-> value]
String(value) == [kind |-> "str", value |-> value]
List(items) == [kind |-> "list", items |-> items]
Item(key, value) == [key |-> key, value |-> value]
OrderedDict(items) == [kind |-> "dict", items |-> items]

\* An exception raised where a document was to be returned.
Exception(type) == [kind |-> "exception", type |-> type]

\* The truth value Python gives a node.
truthy(node) ==
  CASE node.kind = "none" -> FALSE
    [] node.kind = "int" -> node.value # 0
    [] node.kind = "bool" -> node.value
    [] node.kind = "str" -> node.value # ""
    [] OTHER -> Len(node.items) > 0

\* issubclass(value.__class__, value_class) for one of the classes: a bool
\* is an int.
matches_class(node, value_classes) ==
  \/ node.kind \in value_classes
  \/ node.kind = "bool" /\ "int" \in value_classes

\* key in dictionary, dictionary.get(key, default), dictionary[key] = value
\* and del dictionary[key]; an assignment to a key the dictionary has keeps
\* the key's position.
has_key(dictionary, key) ==
  \E i \in 1..Len(dictionary.items) : dictionary.items[i].key = key

key_index(dictionary, key) ==
  CHOOSE i \in 1..Len(dictionary.items) : dictionary.items[i].key = key

dict_get(dictionary, key, default_value) ==
  IF has_key(dictionary, key)
  THEN dictionary.items[key_index(dictionary, key)].value
  ELSE default_value

dict_set(dictionary, key, value) ==
  IF has_key(dictionary, key)
  THEN [dictionary EXCEPT !.items[key_index(dictionary, key)].value = value]
  ELSE [dictionary EXCEPT !.items = Append(@, Item(key, value))]

dict_del(dictionary, key) ==
  [dictionary EXCEPT !.items = SelectSeq(@, LAMBDA item : item.key # key)]

\* safe_dict_get_value(tree_node, key, default_value, value_classes):
\* value_classes = {} stands for value_classes=None.
safe_dict_get_value(tree_node, key, default_value, value_classes) ==
  IF tree_node.kind # "dict" THEN default_value
  ELSE LET value == dict_get(tree_node, key, None)
       IN  IF value = None THEN default_value
           ELSE IF default_value # None \/ value_classes # {}
           THEN IF matches_class(value, IF value_classes # {} THEN value_classes
                                        ELSE {default_value.kind})
                THEN value
                ELSE default_value
           ELSE value

\* The dictionary after an in-place change of the node of the expected class
\* that safe_dict_get_value returned for the key; nothing changes when what
\* it returned was the default value.
set_in(dictionary, key, expected_kind, value) ==
  IF /\ dictionary.kind = "dict"
     /\ has_key(dictionary, key)
     /\ dict_get(dictionary, key, None).kind = expected_kind
  THEN dict_set(dictionary, key, value)
  ELSE dictionary

set_platform_data(metadata, platform_data) ==
  LET plugin_importer ==
        safe_dict_get_value(metadata, "PluginImporter", OrderedDict(<<>>), {})
  IN  set_in(metadata, "PluginImporter", "dict",
             set_in(plugin_importer, "platformData", platform_data.kind,
                    platform_data))

\* list_contains_dictionaries_with_keys(list_to_query,
\* UNITY_5_6_PLATFORM_DATA_KEYS): a non-empty list of dictionaries whose keys
\* are exactly "first" and "second".
list_contains_dictionaries_with_keys(list_to_query) ==
  /\ list_to_query.kind = "list"
  /\ Len(list_to_query.items) > 0
  /\ \A i \in 1..Len(list_to_query.items) :
       LET item == list_to_query.items[i]
       IN  /\ item.kind = "dict"
           /\ Len(item.items) = 2
           /\ {item.items[k].key : k \in 1..2} = {"first", "second"}

\* repr(value) and str(value) of a node: str of a str is the str itself,
\* every other node is written as repr writes it, an OrderedDict as the
\* list of its (key, value) pairs.
RECURSIVE repr(_)
RECURSIVE repr_items(_, _, _)
repr(node) ==
  CASE node.kind = "none" -> "None"
    [] node.kind = "int" -> ToString(node.value)
    [] node.kind = "bool" -> IF node.value THEN "True" ELSE "False"
    [] node.kind = "str" -> "'" \o node.value \o "'"
    [] node.kind = "list" -> "[" \o repr_items(node.items, FALSE, 1) \o "]"
    [] OTHER -> IF Len(node.items) = 0 THEN "OrderedDict()"
                ELSE "OrderedDict([" \o repr_items(node.items, TRUE, 1) \o "])"

repr_items(items, pairs, i) ==
  IF i > Len(items) THEN ""
  ELSE (IF i > 1 THEN ", " ELSE "")
         \o (IF pairs
             THEN "('" \o items[i].key \o "', " \o repr(items[i].value) \o ")"
             ELSE repr(items[i]))
         \o repr_items(items, pairs, i + 1)

str(node) == IF node.kind = "str" THEN node.value ELSE repr(node)

\* The mutation of merge_ordered_dicts that appends every item of
\* merge_from to the list.
no_matching_items(merge_into_value, key) == {}

\* The items of merge_into_value whose str(item["first"]) is the key.
matching_items(merge_into_value, key) ==
  {k \in 1..Len(merge_into_value.items) :
     str(dict_get(merge_into_value.items[k], "first", None)) = key}

\* The mutation of merge_ordered_dicts that leaves out the keys whose value
\* in merge_from is None.
merge_from_value_unless_none(merge_into, merge_from_key, merge_from_value) ==
  IF merge_from_value = None THEN merge_into
  ELSE dict_set(merge_into, merge_from_key, merge_from_value)

\* merge_into[merge_from_key] = merge_from_value
merge_from_value_into(merge_into, merge_from_key, merge_from_value) ==
  dict_set(merge_into, merge_from_key, merge_from_value)

\* merge_ordered_dicts(merge_into, merge_from): the value of merge_into
\* after the call, which is also what the call returns.
RECURSIVE merge_ordered_dicts(_, _)
RECURSIVE merge_items(_, _, _)
RECURSIVE merge_lists(_, _, _)
merge_ordered_dicts(merge_into, merge_from) ==
  IF merge_from.kind = "dict" /\ merge_into.kind = "dict"
  THEN merge_items(merge_into, merge_from, 1)
  ELSE merge_into

merge_items(merge_into, merge_from, i) ==
  IF i > Len(merge_from.items) THEN merge_into
  ELSE LET merge_from_key == merge_from.items[i].key
           merge_from_value == merge_from.items[i].value
           merge_into_value == dict_get(merge_into, merge_from_key, None)
           merged ==
             IF merge_into_value # None /\ merge_into_value.kind = "dict"
                /\ merge_from_value.kind = "dict"
             THEN dict_set(merge_into, merge_from_key,
                           merge_ordered_dicts(merge_into_value, merge_from_value))
             ELSE IF /\ merge_into_value # None
                     /\ list_contains_dictionaries_with_keys(merge_into_value)
                     /\ list_contains_dictionaries_with_keys(merge_from_value)
             THEN dict_set(merge_into, merge_from_key,
                           merge_lists(merge_into_value, merge_from_value, 1))
             ELSE merge_from_value_into(merge_into, merge_from_key, merge_from_value)
       IN  merge_items(merged, merge_from, i + 1)

\* The list merge: an item of merge_from is merged into the first item of
\* merge_into with the same str(item["first"]), and appended when there is
\* none.
merge_lists(merge_into_value, merge_from_value, j) ==
  IF j > Len(merge_from_value.items) THEN merge_into_value
  ELSE LET merge_from_list_item == merge_from_value.items[j]
           key == str(dict_get(merge_from_list_item, "first", None))
           matching == matching_items(merge_into_value, key)
           merged ==
             IF matching = {}
             THEN [merge_into_value EXCEPT !.items = Append(@, merge_from_list_item)]
             ELSE LET k == CHOOSE k \in matching : \A other \in matching : k <= other
                  IN  [merge_into_value EXCEPT
                         !.items[k] = merge_ordered_dicts(@, merge_from_list_item)]
       IN  merge_lists(merged, merge_from_value, j + 1)


\* DEFAULT_IMPORTER_DATA and the DEFAULT_PLATFORM_SETTINGS_* templates.
DEFAULT_IMPORTER_DATA ==
  <<Item("userData", None), Item("assetBundleName", None),
    Item("assetBundleVariant", None)>>

PLATFORM_SETTINGS_DISABLED == <<Item("enabled", Integer(0))>>

DEFAULT_PLATFORM_SETTINGS_EMPTY_DISABLED ==
  OrderedDict(PLATFORM_SETTINGS_DISABLED \o <<Item("settings", OrderedDict(<<>>))>>)

DEFAULT_PLATFORM_SETTINGS_DISABLED ==
  OrderedDict(PLATFORM_SETTINGS_DISABLED
              \o <<Item("settings", OrderedDict(<<Item("CPU", String("AnyCPU"))>>))>>)

DEFAULT_PLATFORM_SETTINGS_EDITOR ==
  OrderedDict(PLATFORM_SETTINGS_DISABLED
              \o <<Item("settings",
                        OrderedDict(<<Item("CPU", String("AnyCPU")),
                                      Item("DefaultValueInitialized", Boolean(TRUE)),
                                      Item("OS", String("AnyOS"))>>))>>)

DEFAULT_PLATFORM_SETTINGS_DISABLED_CPU_NONE ==
  OrderedDict(PLATFORM_SETTINGS_DISABLED
              \o <<Item("settings", OrderedDict(<<Item("CPU", String("None"))>>))>>)

DEFAULT_PLATFORM_SETTINGS_DISABLED_IOS ==
  OrderedDict(PLATFORM_SETTINGS_DISABLED
              \o <<Item("settings",
                        OrderedDict(<<Item("CompileFlags", None),
                                      Item("FrameworkDependencies", None)>>))>>)

\* PLUGIN_IMPORTER_METADATA_TEMPLATE["PluginImporter"]["platformData"]
TEMPLATE_PLATFORM_DATA ==
  OrderedDict(<<Item("Android", DEFAULT_PLATFORM_SETTINGS_DISABLED),
                Item("Any", DEFAULT_PLATFORM_SETTINGS_EMPTY_DISABLED),
                Item("Editor", DEFAULT_PLATFORM_SETTINGS_EDITOR),
                Item("Linux", DEFAULT_PLATFORM_SETTINGS_DISABLED_CPU_NONE),
                Item("Linux64", DEFAULT_PLATFORM_SETTINGS_DISABLED_CPU_NONE),
                Item("LinuxUniversal", DEFAULT_PLATFORM_SETTINGS_DISABLED_CPU_NONE),
                Item("OSXIntel", DEFAULT_PLATFORM_SETTINGS_DISABLED_CPU_NONE),
                Item("OSXIntel64", DEFAULT_PLATFORM_SETTINGS_DISABLED_CPU_NONE),
                Item("OSXUniversal", DEFAULT_PLATFORM_SETTINGS_DISABLED_CPU_NONE),
                Item("Web", DEFAULT_PLATFORM_SETTINGS_EMPTY_DISABLED),
                Item("WebStreamed", DEFAULT_PLATFORM_SETTINGS_EMPTY_DISABLED),
                Item("Win", DEFAULT_PLATFORM_SETTINGS_DISABLED_CPU_NONE),
                Item("Win64", DEFAULT_PLATFORM_SETTINGS_DISABLED_CPU_NONE),
                Item("WindowsStoreApps", DEFAULT_PLATFORM_SETTINGS_DISABLED),
                Item("iOS", DEFAULT_PLATFORM_SETTINGS_DISABLED_IOS),
                Item("tvOS", DEFAULT_PLATFORM_SETTINGS_DISABLED_IOS)>>)

PLUGIN_IMPORTER_METADATA_TEMPLATE ==
  OrderedDict(<<Item("PluginImporter",
                     OrderedDict(<<Item("serializedVersion", Integer(1)),
                                   Item("iconMap", OrderedDict(<<>>)),
                                   Item("executionOrder", OrderedDict(<<>>)),
                                   Item("isPreloaded", Integer(0)),
                                   Item("platformData", TEMPLATE_PLATFORM_DATA)>>
                                 \o DEFAULT_IMPORTER_DATA))>>)

\* PLATFORM_TARGET_BY_PLATFORM
PLATFORM_TARGET_BY_PLATFORM(platform_name) ==
  CASE platform_name \in {"Any", "Editor", "Android", "tvOS"} -> platform_name
    [] platform_name \in {"Linux", "Linux64", "LinuxUniversal", "OSXIntel",
                          "OSXIntel64", "OSXUniversal", "Win", "Win64"} -> "Standalone"
    [] platform_name = "Web" -> "WebGL"
    [] platform_name = "WebStreamed" -> ""
    [] platform_name = "WindowsStoreApps" -> "Windows Store Apps"
    [] platform_name = "iOS" -> "iPhone"

\* PLATFORMS_BY_SHARED_LIBRARY_EXTENSION.get(extension): {} stands for None.
PLATFORMS_BY_SHARED_LIBRARY_EXTENSION(extension) ==
  CASE extension = ".so" -> {"Any", "Editor", "Linux", "Linux64", "LinuxUniversal"}
    [] extension = ".bundle" ->
         {"Any", "Editor", "OSXIntel", "OSXIntel64", "OSXUniversal"}
    [] extension = ".dll" -> {"Any", "Editor", "Win", "Win64"}
    [] OTHER -> {}

\* CPU_BY_DESKTOP_PLATFORM.get(platform_name): "" stands for None.
CPU_BY_DESKTOP_PLATFORM(platform_name) ==
  CASE platform_name \in {"Linux", "OSXIntel", "Win"} -> "x86"
    [] platform_name \in {"Linux64", "OSXIntel64", "Win64"} -> "x86_64"
    [] platform_name \in {"LinuxUniversal", "OSXUniversal"} -> "AnyCPU"
    [] OTHER -> ""

\* The export paths of the assets whose metadata is followed, split into
\* their directories, the name of the file without a leading "lib" and
\* without the extension, and the extension (os.path.splitext).
SplitFilename(filename) ==
  CASE filename = "Plugins/x86_64/libFoo.so" ->
         [dirs |-> <<"Plugins", "x86_64">>, lib |-> TRUE, name |-> "Foo", ext |-> ".so"]
    [] filename = "Plugins/x86/Foo/bar.bundle" ->
         [dirs |-> <<"Plugins", "x86", "Foo">>, lib |-> FALSE, name |-> "bar",
          ext |-> ".bundle"]
    [] filename = "Assets/Plugins/x86_64/bar.dll" ->
         [dirs |-> <<"Assets", "Plugins", "x86_64">>, lib |-> FALSE, name |-> "bar",
          ext |-> ".dll"]
    [] filename = "Plugins/Plugin.dll" ->
         [dirs |-> <<"Plugins">>, lib |-> FALSE, name |-> "Plugin", ext |-> ".dll"]
    [] filename = "Plugins/x86/readme.txt" ->
         [dirs |-> <<"Plugins", "x86">>, lib |-> FALSE, name |-> "readme",
          ext |-> ".txt"]
    [] filename = "A/B.cs" ->
         [dirs |-> <<"A">>, lib |-> FALSE, name |-> "B", ext |-> ".cs"]

MetadataFilenames ==
  {"Plugins/x86_64/libFoo.so", "Plugins/x86/Foo/bar.bundle",
   "Assets/Plugins/x86_64/bar.dll", "Plugins/Plugin.dll", "Plugins/x86/readme.txt",
   "A/B.cs"}

\* SHARED_LIBRARY_PATH.search(filename): a directory Plugins/x86 or
\* Plugins/x86_64 anywhere above a file with the extension so, dll or bundle.
SHARED_LIBRARY_PATH(filename) ==
  LET path == SplitFilename(filename)
  IN  /\ path.ext \in {".so", ".dll", ".bundle"}
      /\ \E i \in 1..(Len(path.dirs) - 1) :
           path.dirs[i] = "Plugins" /\ path.dirs[i + 1] \in {"x86", "x86_64"}

\* LINUX_SHARED_LIBRARY_PATH.match(filename): Plugins/x86 or Plugins/x86_64
\* at the start of the path of a file with the extension so.
LINUX_SHARED_LIBRARY_PATH(filename) ==
  LET path == SplitFilename(filename)
  IN  /\ path.ext = ".so"
      /\ Len(path.dirs) >= 2
      /\ path.dirs[1] = "Plugins" /\ path.dirs[2] \in {"x86", "x86_64"}

\* The labels the effective metadata can carry, in sorted order.
LabelSeq ==
  <<"gvh", "gvh_linuxlibname-Foo", "gvhp_exportpath-A/B.cs",
    "gvhp_exportpath-Assets/Plugins/x86_64/bar.dll",
    "gvhp_exportpath-Plugins/Plugin.dll",
    "gvhp_exportpath-Plugins/x86/Foo/bar.bundle",
    "gvhp_exportpath-Plugins/x86/readme.txt",
    "gvhp_exportpath-Plugins/x86_64/libFoo.so">>

\* sorted(new_labels) as a list of labels.
sorted_labels(new_labels) ==
  LET chosen == SelectSeq(LabelSeq, LAMBDA label : label \in new_labels)
  IN  List([i \in 1..Len(chosen) |-> String(chosen[i])])

\* Asset.add_labels_to_metadata(importer_metadata, labels)
add_labels_to_metadata(metadata, labels) ==
  LET existing_labels == safe_dict_get_value(metadata, "labels", None, {"list"})
      new_labels ==
        (IF existing_labels = None THEN {}
         ELSE {existing_labels.items[i].value : i \in 1..Len(existing_labels.items)})
          \cup labels
  IN  IF new_labels # {} THEN dict_set(metadata, "labels", sorted_labels(new_labels))
      ELSE IF existing_labels # None THEN dict_del(metadata, "labels")
      ELSE metadata

\* The version-1 platform data of a document and its serializedVersion.
plugin_importer_of(metadata) ==
  safe_dict_get_value(metadata, "PluginImporter", OrderedDict(<<>>), {})

serialized_version_of(metadata) ==
  safe_dict_get_value(plugin_importer_of(metadata), "serializedVersion", Integer(1), {})

\* The platform names documents use, as sorted() orders them.
SortedPlatformSeq ==
  <<"Android", "Any", "Editor", "Linux", "Linux64", "LinuxUniversal", "OSXIntel",
    "OSXIntel64", "OSXUniversal", "WP8", "Web", "WebStreamed", "Win", "Win64",
    "WindowsStoreApps", "iOS", "tvOS">>

\* The loop of disable_unsupported_platforms that replaces each platform of
\* disable_platforms by its entry of the template: the platform data when
\* the loop ends, and whether it ended with KeyError, at a platform the
\* template does not have.
RECURSIVE disable_platforms_from(_, _, _)
disable_platforms_from(platform_data, disable_platforms, i) ==
  IF i > Len(disable_platforms) THEN [platform_data |-> platform_data, raised |-> FALSE]
  ELSE LET current_platform == disable_platforms[i]
       IN  IF ~has_key(TEMPLATE_PLATFORM_DATA, current_platform)
           THEN [platform_data |-> platform_data, raised |-> TRUE]
           ELSE disable_platforms_from(
                  dict_set(platform_data, current_platform,
                           dict_get(TEMPLATE_PLATFORM_DATA, current_platform, None)),
                  disable_platforms, i + 1)

\* Asset.disable_unsupported_platforms(importer_metadata, filename): the
\* value of importer_metadata when the call ends, and whether it ends with
\* KeyError.
disable_unsupported_platforms_in_place(metadata, filename) ==
  LET supported_platforms ==
        PLATFORMS_BY_SHARED_LIBRARY_EXTENSION(SplitFilename(filename).ext)
      platform_data ==
        safe_dict_get_value(plugin_importer_of(metadata), "platformData",
                            OrderedDict(<<>>), {})
      disable_platforms ==
        SelectSeq(SortedPlatformSeq,
                  LAMBDA platform_name : /\ has_key(platform_data, platform_name)
                                         /\ platform_name \notin supported_platforms)
      any_config == dict_get(platform_data, "Any", OrderedDict(<<>>))
      any_disabled ==
        IF disable_platforms = <<>> THEN platform_data
        ELSE dict_set(platform_data, "Any", dict_set(any_config, "enabled", Integer(0)))
      disabled == disable_platforms_from(any_disabled, disable_platforms, 1)
  IN  IF ~SHARED_LIBRARY_PATH(filename) THEN [metadata |-> metadata, raised |-> FALSE]
      ELSE IF supported_platforms = {} THEN [metadata |-> metadata, raised |-> FALSE]
      ELSE IF serialized_version_of(metadata) # Integer(1)
      THEN [metadata |-> metadata, raised |-> FALSE]
      ELSE [metadata |-> set_platform_data(metadata, disabled.platform_data),
            raised |-> disabled.raised]

\* What Asset.disable_unsupported_platforms returns, or the exception it
\* raises.
disable_unsupported_platforms(metadata, filename) ==
  LET ended == disable_unsupported_platforms_in_place(metadata, filename)
  IN  IF ended.raised THEN Exception("KeyError") ELSE ended.metadata

\* Asset.platform_data_get_entry(platform_data_item): the "first" and the
\* "second" of an item of a platformData list, whether or not the item
\* holds them under "data".
platform_data_get_entry(platform_data_item) ==
  LET entry == dict_get(platform_data_item, "data", platform_data_item)
  IN  [first |-> safe_dict_get_value(entry, "first", OrderedDict(<<>>), {}),
       second |-> safe_dict_get_value(entry, "second", OrderedDict(<<>>), {})]

\* The item after an in-place change of the "second" that
\* platform_data_get_entry returned for it.
set_entry_second(platform_data_item, second) ==
  IF has_key(platform_data_item, "data")
  THEN dict_set(platform_data_item, "data",
                set_in(dict_get(platform_data_item, "data", None), "second", "dict",
                       second))
  ELSE set_in(platform_data_item, "second", "dict", second)

\* list(first.items())[0][1], the platform an item of a platformData list
\* names; the list of the items of an empty "first" has no element 0.
platform_name_of(first) == first.items[1].value

\* Asset.set_cpu_for_desktop_platforms, serializedVersion 1.
RECURSIVE set_cpu_v1(_, _)
set_cpu_v1(platform_data, i) ==
  IF i > Len(platform_data.items) THEN platform_data
  ELSE LET platform_name == platform_data.items[i].key
           options == platform_data.items[i].value
           cpu == CPU_BY_DESKTOP_PLATFORM(platform_name)
           settings == dict_get(options, "settings", OrderedDict(<<>>))
       IN  IF ~truthy(safe_dict_get_value(options, "enabled", Integer(0), {}))
           THEN set_cpu_v1(platform_data, i + 1)
           ELSE IF cpu = "" THEN set_cpu_v1(platform_data, i + 1)
           ELSE IF dict_get(settings, "CPU", String("None")) = String("None")
           THEN set_cpu_v1(
                  dict_set(platform_data, platform_name,
                           dict_set(options, "settings",
                                    dict_set(settings, "CPU", String(cpu)))),
                  i + 1)
           ELSE set_cpu_v1(platform_data, i + 1)

\* Asset.set_cpu_for_desktop_platforms, later serializedVersions.
RECURSIVE set_cpu_v2(_, _)
set_cpu_v2(platform_data, i) ==
  IF i > Len(platform_data.items) THEN platform_data
  ELSE LET entry == platform_data_get_entry(platform_data.items[i])
           cpu == CPU_BY_DESKTOP_PLATFORM(platform_name_of(entry.first).value)
           settings ==
             safe_dict_get_value(entry.second, "settings", OrderedDict(<<>>), {})
       IN  IF Len(entry.first.items) = 0 THEN Exception("IndexError")
           ELSE IF ~truthy(dict_get(entry.second, "enabled", Integer(0)))
           THEN set_cpu_v2(platform_data, i + 1)
           ELSE IF platform_name_of(entry.first).kind # "str"
           THEN set_cpu_v2(platform_data, i + 1)
           ELSE IF cpu = "" THEN set_cpu_v2(platform_data, i + 1)
           ELSE IF dict_get(settings, "CPU", String("None")) = String("None")
           THEN set_cpu_v2(
                  [platform_data EXCEPT
                     !.items[i] =
                       set_entry_second(@, dict_set(entry.second, "settings",
                                                    dict_set(settings, "CPU", String(cpu))))],
                  i + 1)
           ELSE set_cpu_v2(platform_data, i + 1)

\* The mutation of Asset.set_cpu_for_desktop_platforms that returns the
\* metadata as it is.
set_no_cpu_for_desktop_platforms(metadata) == metadata

\* Asset.set_cpu_for_desktop_platforms(importer_metadata)
set_cpu_for_desktop_platforms(metadata) ==
  LET plugin_importer == plugin_importer_of(metadata)
  IN  IF serialized_version_of(metadata) = Integer(1)
      THEN set_platform_data(
             metadata,
             set_cpu_v1(safe_dict_get_value(plugin_importer, "platformData",
                                            OrderedDict(<<>>), {}), 1))
      ELSE LET platform_data ==
                 set_cpu_v2(safe_dict_get_value(plugin_importer, "platformData",
                                                List(<<>>), {}), 1)
           IN  IF platform_data.kind = "exception" THEN platform_data
               ELSE set_platform_data(metadata, platform_data)


\* The platforms of the template in its order.
TemplatePlatforms ==
  [i \in 1..Len(TEMPLATE_PLATFORM_DATA.items) |-> TEMPLATE_PLATFORM_DATA.items[i].key]

\* Asset.apply_any_platform_selection, serializedVersion 1: every platform
\* of the template gets the "enabled" of the Any platform, a platform the
\* data does not have starting from its entry of the template.
RECURSIVE apply_any_v1(_, _, _)
apply_any_v1(platform_data, any_enabled, i) ==
  IF i > Len(TemplatePlatforms) THEN platform_data
  ELSE LET platform_name == TemplatePlatforms[i]
           found == dict_get(platform_data, platform_name, None)
           config == IF found = None
                     THEN dict_get(TEMPLATE_PLATFORM_DATA, platform_name, None)
                     ELSE found
       IN  apply_any_v1(dict_set(platform_data, platform_name,
                                 dict_set(config, "enabled", any_enabled)),
                        any_enabled, i + 1)

\* The "enabled" of the first item of a platformData list whose "first" has
\* the key "Any"; 0 when there is none.
RECURSIVE any_enabled_v2(_, _)
any_enabled_v2(platform_data, i) ==
  IF i > Len(platform_data.items) THEN Integer(0)
  ELSE LET entry == platform_data_get_entry(platform_data.items[i])
       IN  IF has_key(entry.first, "Any") THEN dict_get(entry.second, "enabled", Integer(0))
           ELSE any_enabled_v2(platform_data, i + 1)

\* The platforms the items of a platformData list name.
platform_names_v2(platform_data) ==
  {platform_name_of(platform_data_get_entry(platform_data.items[i]).first) :
     i \in 1..Len(platform_data.items)}

\* Asset.apply_any_platform_selection, later serializedVersions: every item
\* gets the "enabled" of the Any platform, and every platform of the
\* template but Any that no item names is added, in the format of the last
\* item.
apply_any_v2(platform_data, any_enabled) ==
  LET new_platform_data ==
        [i \in 1..Len(platform_data.items) |->
           LET entry == platform_data.items[i]
           IN  set_entry_second(
                 entry, dict_set(platform_data_get_entry(entry).second, "enabled",
                                 any_enabled))]
      named == platform_names_v2(platform_data)
      remaining_platforms ==
        SelectSeq(TemplatePlatforms,
                  LAMBDA platform_name :
                    platform_name # "Any" /\ String(platform_name) \notin named)
      unity_5_6_format ==
        /\ Len(platform_data.items) > 0
        /\ has_key(platform_data.items[Len(platform_data.items)], "data")
      added ==
        [i \in 1..Len(remaining_platforms) |->
           LET entry ==
                 OrderedDict(<<Item("first",
                                    OrderedDict(<<Item(PLATFORM_TARGET_BY_PLATFORM(
                                                         remaining_platforms[i]),
                                                       String(remaining_platforms[i]))>>)),
                               Item("second",
                                    OrderedDict(<<Item("enabled", any_enabled)>>))>>)
           IN  IF unity_5_6_format THEN OrderedDict(<<Item("data", entry)>>)
               ELSE entry]
  IN  IF \E i \in 1..Len(platform_data.items) :
           Len(platform_data_get_entry(platform_data.items[i]).first.items) = 0
      THEN Exception("IndexError")
      ELSE List(new_platform_data \o added)

\* Asset.apply_any_platform_selection(importer_metadata): the value of
\* importer_metadata after the call, or the exception it raises.
Asset_apply_any_platform_selection(metadata) ==
  LET plugin_importer == plugin_importer_of(metadata)
  IN  IF serialized_version_of(metadata) = Integer(1)
      THEN LET platform_data ==
                 safe_dict_get_value(plugin_importer, "platformData",
                                     OrderedDict(<<>>), {})
               any_enabled ==
                 dict_get(dict_get(platform_data, "Any", OrderedDict(<<>>)),
                          "enabled", Integer(0))
           IN  IF ~truthy(any_enabled) THEN metadata
               ELSE set_platform_data(metadata,
                                      apply_any_v1(platform_data, any_enabled, 1))
      ELSE LET platform_data ==
                 safe_dict_get_value(plugin_importer, "platformData", List(<<>>), {})
               any_enabled == any_enabled_v2(platform_data, 1)
               new_platform_data == apply_any_v2(platform_data, any_enabled)
           IN  IF ~truthy(any_enabled) THEN metadata
               ELSE IF new_platform_data.kind = "exception" THEN new_platform_data
               ELSE set_platform_data(metadata, new_platform_data)

\* The labels Asset.importer_metadata adds: the name of a Linux library,
\* and the export path.
effective_labels(filename) ==
  (IF LINUX_SHARED_LIBRARY_PATH(filename)
   THEN {"gvh_linuxlibname-" \o SplitFilename(filename).name}
   ELSE {})
    \cup {"gvhp_exportpath-" \o filename}

\* The mutation of Asset.importer_metadata that works on the stored
\* document itself.
no_copy(metadata) == [shared |-> TRUE, metadata |-> metadata]

\* copy.deepcopy(self._importer_metadata): the value, held by an object of
\* its own.
deepcopy(metadata) == [shared |-> FALSE, metadata |-> metadata]

\* A statement `name = value` followed by the statements Rest(name): the
\* value is computed once, as the statement computes it.
Assign(value, Rest(_)) == CHOOSE result \in {Rest(name) : name \in {value}} : TRUE

\* Asset.importer_metadata: what the property returns (a document or the
\* exception raised) and the value of self._importer_metadata after the
\* read.  Each step changes the document it is given in place, so a step
\* that raises leaves the changes of the steps before it.
Asset_importer_metadata(filename, importer_metadata_original) ==
  LET copied == deepcopy(importer_metadata_original)
      property(disabling, disabled, applied, with_cpu) ==
        LET last_value == IF disabled.kind = "exception" THEN disabling.metadata
                          ELSE IF applied.kind = "exception" THEN disabled
                          ELSE IF with_cpu.kind = "exception" THEN applied
                          ELSE with_cpu
        IN  [returned |-> with_cpu,
             importer_metadata_original |->
               IF copied.shared THEN last_value ELSE importer_metadata_original]
      set_cpu(disabling, disabled, applied) ==
        Assign(IF applied.kind = "exception" THEN applied
               ELSE set_cpu_for_desktop_platforms(applied),
               LAMBDA with_cpu : property(disabling, disabled, applied, with_cpu))
      apply_any(disabling) ==
        Assign(IF disabling.raised THEN Exception("KeyError") ELSE disabling.metadata,
               LAMBDA disabled :
                 Assign(IF disabled.kind = "exception" THEN disabled
                        ELSE Asset_apply_any_platform_selection(disabled),
                        LAMBDA applied : set_cpu(disabling, disabled, applied)))
  IN  Assign(add_labels_to_metadata(copied.metadata, effective_labels(filename)),
             LAMBDA labelled :
               Assign(disable_unsupported_platforms_in_place(labelled, filename),
                      LAMBDA disabling : apply_any(disabling)))


(***************************************************************************)
(* The metadata documents of the assets that are followed.                 *)
(***************************************************************************)
\* At most this many platforms in the platform data of a document.
MaxDocPlatforms == 2

\* The platforms a document can name, in the order it lists them: WP8 is a
\* platform the template does not have.
DocPlatformSeq == <<"Any", "Editor", "Linux64", "OSXUniversal", "WP8", "Win64">>

\* What a document can hold for a platform: "enabled" absent, 0 or 1, and
\* "settings" absent or with a CPU.
PlatformOptions ==
  {OrderedDict(enabled \o settings) :
     enabled \in {<<>>, <<Item("enabled", Integer(0))>>, <<Item("enabled", Integer(1))>>},
     settings \in {<<>>,
                   <<Item("settings", OrderedDict(<<Item("CPU", String("None"))>>))>>,
                   <<Item("settings", OrderedDict(<<Item("CPU", String("AnyCPU"))>>))>>}}

\* The platforms of a document and what it holds for each.
PlatformSelections ==
  UNION {[chosen -> PlatformOptions] :
           chosen \in {c \in SUBSET (1..Len(DocPlatformSeq)) :
                         Cardinality(c) <= MaxDocPlatforms}}

ChosenSeq(selection) ==
  SelectSeq([i \in 1..Len(DocPlatformSeq) |-> i], LAMBDA i : i \in DOMAIN selection)

PluginImporterDocument(serialized_version, platform_data) ==
  OrderedDict(<<Item("PluginImporter",
                     OrderedDict(<<Item("serializedVersion", Integer(serialized_version)),
                                   Item("platformData", platform_data)>>))>>)

\* A document of serializedVersion 1: platformData is a dictionary keyed by
\* platform.
DocumentV1(selection) ==
  LET chosen == ChosenSeq(selection)
  IN  PluginImporterDocument(
        1, OrderedDict([k \in 1..Len(chosen) |->
                          Item(DocPlatformSeq[chosen[k]], selection[chosen[k]])]))

\* A document of serializedVersion 2: platformData is a list of "first" /
\* "second" pairs, each under "data" in the format of Unity 5.6.
DocumentV2(selection, unity_5_6_format) ==
  LET chosen == ChosenSeq(selection)
      first(platform_name) ==
        IF platform_name = "Any" THEN OrderedDict(<<Item("Any", None)>>)
        ELSE IF platform_name = "WP8" THEN OrderedDict(<<Item("WP8", String("WP8"))>>)
        ELSE OrderedDict(<<Item(PLATFORM_TARGET_BY_PLATFORM(platform_name),
                                String(platform_name))>>)
      entry(i) ==
        OrderedDict(<<Item("first", first(DocPlatformSeq[i])),
                      Item("second", selection[i])>>)
  IN  PluginImporterDocument(
        2, List([k \in 1..Len(chosen) |->
                   IF unity_5_6_format
                   THEN OrderedDict(<<Item("data", entry(chosen[k]))>>)
                   ELSE entry(chosen[k])]))

\* DEFAULT_IMPORTER_METADATA_TEMPLATE, alone and with a label, and
\* PLUGIN_IMPORTER_METADATA_TEMPLATE.
DEFAULT_IMPORTER_METADATA_TEMPLATE ==
  OrderedDict(<<Item("DefaultImporter", OrderedDict(DEFAULT_IMPORTER_DATA))>>)

MetadataDocuments ==
  {DocumentV1(selection) : selection \in PlatformSelections}
    \cup {DocumentV2(selection, unity_5_6_format) :
            selection \in PlatformSelections, unity_5_6_format \in BOOLEAN}
    \cup {DEFAULT_IMPORTER_METADATA_TEMPLATE,
          dict_set(DEFAULT_IMPORTER_METADATA_TEMPLATE, "labels", List(<<String("gvh")>>)),
          PLUGIN_IMPORTER_METADATA_TEMPLATE}


\* The values of the variables of a part of the program that a specification
\* does not run.
NoMainFrame ==
  [pc |-> "not_called", temporary_dirs |-> {}, error |-> NoError, logged |-> FALSE,
   exit_code |-> -1]

NoArchiveCall ==
  /\ archive_flags = [system |-> "", use_tar |-> FALSE, timestamp |-> 0]
  /\ staging_dir = <<>>
  /\ archive_calls = <<>>

NoGenGuidsCall ==
  /\ guid_data = <<>>
  /\ gen_calls = <<>>

NoServer ==
  [pc |-> "not_created", service_actions_callable |-> FALSE,
   shutdown_request |-> FALSE, is_shut_down |-> FALSE, ready |-> FALSE,
   pending |-> 0, requests |-> 0]

NoRunner ==
  [pc |-> "not_created", starts |-> 0, processes |-> 0, process |-> "none",
   returncode |-> -1, process_result |-> -1]

NoLauncher ==
  /\ httpd = NoServer
  /\ runner = NoRunner
  /\ launcher = [pc |-> "not_called", returned |-> -1, arguments |-> "none"]

NoToolCall ==
  /\ NoArchiveCall
  /\ NoGenGuidsCall
  /\ NoLauncher
  /\ name_map_calls = <<>>

NoMainCall ==
  /\ main_call = [output_unitypackage |-> FALSE, output_upm |-> FALSE,
                  enforce_semver |-> FALSE, output_zip |-> FALSE]
  /\ main_frame = NoMainFrame

NoMetadataCall ==
  /\ metadata_asset = [filename |-> NoFilename, importer_metadata_original |-> None]
  /\ metadata_reads = <<>>
  /\ platform_metadata = None
  /\ platform_filename = NoFilename
  /\ platform_calls = <<>>

NoProject ==
  /\ project_json = [packages |-> <<>>, builds |-> <<>>, version |-> NoFilename]
  /\ selected_sections = NoSections
  /\ packages_by_name = <<>>
  /\ builds = <<>>
  /\ project_pc = "new"
  /\ set_result = "none"

NoFindCall ==
  /\ find_call = [package |-> 0, check_for_duplicates |-> TRUE, for_upm |-> FALSE]
  /\ find_result = [ended |-> "not_called", errors |-> {}, assets |-> <<>>]

NoWriteFrame ==
  [pc |-> "not_called", unity_package_file |-> NoFilename, assets |-> <<>>,
   stage_index |-> 1, staged |-> <<>>, error |-> NoError]

NoExportFrame ==
  [pc |-> "not_called", selected_sections |-> {}, builds |-> <<>>, maps |-> <<>>,
   build_index |-> 1, package_index |-> 1, missing_guid_paths |-> {},
   error |-> NoError]

NoExportCall ==
  /\ export_call = [for_upm |-> FALSE]
  /\ export_frame = NoExportFrame
  /\ package_writes = <<>>

NoWriteCall ==
  /\ write_call = [package |-> 0, for_upm |-> FALSE, package_filename |-> NoFilename]
  /\ write_frame = NoWriteFrame
  /\ temporary_dir = "none"
  /\ archives = {}
  /\ NoExportCall

NoGuidDatabase ==
  /\ guids_json = <<>>
  /\ plugin_version = NoVersion
  /\ guids_by_path = EmptyDatabase.guids_by_path
  /\ paths_by_guid = EmptyDatabase.paths_by_guid
  /\ guid_pc = "new"
  /\ ReadNotCalled

InitGuidStore ==
  /\ NoMetadataCall
  /\ NoMainCall
  /\ NoToolCall
  /\ assets_dirs = NoMetadataFiles
  /\ NoWriteCall
  /\ NoProject
  /\ NoFindCall
  /\ guids_json \in Stores(MaxStoreEntries)
  /\ plugin_version \in VersionStrings \cup {NoVersion}
  /\ guids_by_path = EmptyDatabase.guids_by_path
  /\ paths_by_guid = EmptyDatabase.paths_by_guid
  /\ guid_pc = "new"
  /\ ReadNotCalled

\* database = GuidDatabase(DuplicateGuidsChecker(), guids_json, plugin_version)
NewGuidDatabase ==
  /\ guid_pc = "new"
  /\ LET db == GuidDatabaseInit(guids_json, plugin_version)
     IN  /\ guids_by_path' = db.guids_by_path
         /\ paths_by_guid' = db.paths_by_guid
  /\ guid_pc' = "ready"
  /\ UNCHANGED <<metadata_vars, main_vars, tool_vars,
                 guids_json, plugin_version, read_vars, project_vars, find_vars,
               assets_dirs, write_vars, export_vars>>

NextGuidStore == NewGuidDatabase

SpecGuidStore == InitGuidStore /\ [][NextGuidStore]_vars

(***************************************************************************)
(* Claims about GuidDatabase.__init__.                                     *)
(***************************************************************************)
\* The GUIDs a store gives a path (in POSIX form) at one version.
GuidsAt(json, version, path) ==
  {StoreMap(json, version)[r] : r \in {q \in RawPaths : posix_path(q) = path}} \ {NoGuid}

\* The versions of the store strictly before `version` that define `path`.
PriorVersionsDefining(json, version, path) ==
  {w \in DOMAIN json : VersionLess(w, version) /\ GuidsAt(json, w, path) # {}}

\* The greatest of a non-empty set of versions.
NearestVersion(S) == CHOOSE v \in S : \A w \in S : ~VersionLess(v, w)

\* C1: a path with no entry at the target version resolves to the GUID it
\* has at the nearest prior version (the greatest version strictly below the
\* target that defines the path).
C1_HistoricalFallback ==
  (guid_pc = "ready" /\ plugin_version # NoVersion) =>
    \A p \in Paths :
      LET prior == PriorVersionsDefining(guids_json, plugin_version, p)
      IN  (GuidsAt(guids_json, plugin_version, p) = {} /\ prior # {}) =>
            guids_by_path[p] \in GuidsAt(guids_json, NearestVersion(prior), p)

(***************************************************************************)
(* A run of read_guids_from_assets calls on one constructed database.      *)
(***************************************************************************)
AssetLists == UNION {[1..n -> GuidAssets] : n \in 0..MaxAssets}

InitGuidRun ==
  /\ NoMetadataCall
  /\ NoMainCall
  /\ NoToolCall
  /\ assets_dirs = NoMetadataFiles
  /\ NoWriteCall
  /\ NoProject
  /\ NoFindCall
  /\ \E json \in Stores(MaxRunStoreEntries), version \in VersionStrings :
       LET db == GuidDatabaseInit(json, version)
       IN  /\ guids_by_path = db.guids_by_path
           /\ paths_by_guid = db.paths_by_guid
  \* the constructor's arguments are not kept by the database
  /\ guids_json = <<>>
  /\ plugin_version = NoVersion
  /\ guid_pc = "ready"
  /\ ReadNotCalled

\* database.read_guids_from_assets(assets)
ReadGuidsFromAssets ==
  /\ guid_pc = "ready"
  /\ \E assets \in AssetLists :
       LET r == read_guids_from_assets(
                  [guids_by_path |-> guids_by_path, paths_by_guid |-> paths_by_guid],
                  assets)
       IN  /\ guids_by_path' = r.db.guids_by_path
           /\ paths_by_guid' = r.db.paths_by_guid
           /\ read_assets' = assets
           /\ read_result' = r.result
           /\ missing_guid_paths' = r.missing_guid_paths
  /\ UNCHANGED <<metadata_vars, main_vars, tool_vars,
                 guids_json, plugin_version, guid_pc, project_vars, find_vars,
               assets_dirs, write_vars, export_vars>>

NextGuidRun == ReadGuidsFromAssets

SpecGuidRun == InitGuidRun /\ [][NextGuidRun]_vars

\* C2: whenever read_guids_from_assets returns without raising, no GUID is
\* associated with more than one distinct path among all path/GUID pairs
\* registered so far, and no two distinct paths resolve to the same GUID.
C2_NoSharedGuidAfterRead ==
  read_result = "returned" =>
    /\ \A g \in Guids : Cardinality(paths_by_guid[g]) <= 1
    /\ \A p, q \in Paths :
         (p # q /\ guids_by_path[p] # NoGuid) => guids_by_path[p] # guids_by_path[q]

\* A read returned although two paths are registered, each with its own GUID.
C2_Witness ==
  /\ read_result = "returned"
  /\ Len(read_assets) >= 1
  /\ \A p \in Paths : guids_by_path[p] # NoGuid

\* C6: the MissingGuidsError of a pass lists every asset lookup path of the
\* pass that has no GUID in the asset's metadata and none in the database,
\* and every asset of the pass was examined: the GUIDs that assets of the pass
\* carry in their metadata are all registered.
C6_MissingGuidsBatched ==
  read_result = "MissingGuidsError" =>
    \A i \in 1..Len(read_assets) :
      LET asset == read_assets[i]
          path == posix_path(asset.filename_guid_lookup)
      IN  /\ (asset.guid = NoGuid /\ guids_by_path[path] = NoGuid) =>
               asset.filename_guid_lookup \in missing_guid_paths
          /\ asset.guid # NoGuid => path \in paths_by_guid[asset.guid]

\* A pass raised MissingGuidsError naming two different paths.
C6_Witness ==
  /\ read_result = "MissingGuidsError"
  /\ Len(read_assets) >= 2
  /\ Cardinality({posix_path(p) : p \in missing_guid_paths}) >= 2

(***************************************************************************)
(* Project configurations enumerated for section selection: three packages *)
(* (the third either has its own name or the name of the first), a bounded *)
(* number of include entries and of gated packages, and two build          *)
(* configurations.                                                         *)
(***************************************************************************)
PackageSlots == {1, 2, 3}
PackageNameLists == {<<"A", "B", "C">>, <<"A", "B", "A">>}
PackageNameSeq == <<"A", "B", "C">>

\* The include entries of a project: pairs <<package slot, included name>>.
IncludeEdgeSets(max_edges) ==
  {e \in SUBSET (PackageSlots \X PackageNames) : Cardinality(e) <= max_edges}

\* The "includes" list of a slot: the included names in the order A, B, C.
IncludesOf(edges, slot) ==
  SelectSeq(PackageNameSeq, LAMBDA n : <<slot, n>> \in edges)

\* The "sections" allow-lists of the three packages.
SectionLists(max_gated) ==
  {l \in [PackageSlots -> {{}, {"x"}, {"y"}}] :
     Cardinality({i \in PackageSlots : l[i] # {}}) <= max_gated}

\* A package dictionary; the keys it does not set have the defaults the
\* properties of PackageConfiguration give them.
PackageJson(name, sections, includes, imports, exclude_paths) ==
  [name |-> name, sections |-> sections, includes |-> includes,
   imports |-> imports, exclude_paths |-> exclude_paths,
   export |-> 1, export_upm |-> 0, manifest_path |-> NoFilename,
   common_package_name |-> NoFilename, readme |-> NoFilename,
   documentation |-> NoFilename]

\* A build dictionary without package name replacements.
BuildJson(name, sections, enabled_sections) ==
  [name |-> name, sections |-> sections, enabled_sections |-> enabled_sections,
   package_name_replacements |-> <<>>]

SectionProjects ==
  {[packages |-> [i \in PackageSlots |->
                    PackageJson(names[i], sections[i], IncludesOf(edges, i), <<>>, {})],
    builds |-> <<BuildJson("b1", s1, {}), BuildJson("b2", s2, {})>>,
    version |-> "1.0.0"] :
     names \in PackageNameLists, edges \in IncludeEdgeSets(MaxIncludeEdges),
     sections \in SectionLists(MaxGatedPackages),
     s1 \in {{}, {"x"}}, s2 \in {{}, {"y"}}}

InitSections ==
  /\ NoMetadataCall
  /\ NoMainCall
  /\ NoToolCall
  /\ assets_dirs = NoMetadataFiles
  /\ NoWriteCall
  /\ NoGuidDatabase
  /\ NoFindCall
  /\ project_json \in SectionProjects
  /\ selected_sections = NewProjectFields.selected_sections
  /\ packages_by_name = NewProjectFields.packages_by_name
  /\ builds = NewProjectFields.builds
  /\ project_pc = "new"
  /\ set_result = "none"

\* The assignment `self.selected_sections = sections` on the current fields.
AssignSelectedSections(sections) ==
  LET r == set_selected_sections(project_json, ProjectFields, sections)
  IN  /\ selected_sections' = r.config.selected_sections
      /\ packages_by_name' = r.config.packages_by_name
      /\ builds' = r.config.builds
      /\ set_result' = IF r.raised THEN "ProjectConfigurationError" ELSE "returned"

\* project = ProjectConfiguration(project_json, selected_sections, version):
\* the constructor ends with the first assignment to selected_sections and
\* raises what that raises.
NewProjectConfiguration ==
  /\ project_pc = "new"
  /\ \E sections \in SUBSET Sections : AssignSelectedSections(sections)
  /\ project_pc' = IF set_result' = "returned" THEN "ready" ELSE "failed"
  /\ UNCHANGED <<metadata_vars, main_vars, tool_vars,
                 project_json, guid_vars, read_vars, find_vars, assets_dirs,
                 write_vars, export_vars>>

\* project.selected_sections = sections
SetSelectedSections ==
  /\ project_pc = "ready"
  /\ \E sections \in SUBSET Sections : AssignSelectedSections(sections)
  /\ UNCHANGED <<metadata_vars, main_vars, tool_vars,
                 project_json, project_pc, guid_vars, read_vars, find_vars,
               assets_dirs, write_vars, export_vars>>

NextSections == NewProjectConfiguration \/ SetSelectedSections

SpecSections == InitSections /\ [][NextSections]_vars

\* C3: an assignment to selected_sections that raises
\* ProjectConfigurationError leaves selected_sections, packages_by_name and
\* builds exactly as they were before the assignment.
C3_FailedAssignmentChangesNothing ==
  [][(project_pc = "ready" /\ set_result' = "ProjectConfigurationError") =>
       UNCHANGED <<selected_sections, packages_by_name, builds>>]_vars

\* The names of the enabled packages.
EnabledNames ==
  {project_json.packages[packages_by_name[i]].name : i \in 1..Len(packages_by_name)}

\* An assignment failed on a project that had packages enabled and had
\* another section set selected before.
C3_Witness ==
  /\ project_pc = "ready"
  /\ set_result = "ProjectConfigurationError"
  /\ selected_sections # {}
  /\ Len(packages_by_name) >= 2

\* The names a package reaches through "includes" of enabled packages:
\* the least set closed under the include entries, computed as a fixpoint.
RECURSIVE IncludeClosure(_)
IncludeClosure(names) ==
  LET step == names \cup
        {n \in PackageNames :
           \E i \in 1..Len(packages_by_name) :
             LET pkg == project_json.packages[packages_by_name[i]]
             IN  pkg.name \in names /\ \E k \in 1..Len(pkg.includes) : pkg.includes[k] = n}
  IN  IF step = names THEN names ELSE IncludeClosure(step)

IncludedNames(pkg) ==
  IncludeClosure({pkg.includes[k] : k \in 1..Len(pkg.includes)})

\* C4: in every ProjectConfiguration that was constructed, after every
\* section assignment, no enabled package transitively includes itself (and
\* every include names an enabled package).
C4_IncludesAcyclic ==
  project_pc = "ready" =>
    \A i \in 1..Len(packages_by_name) :
      LET pkg == project_json.packages[packages_by_name[i]]
      IN  /\ pkg.name \notin IncludedNames(pkg)
          /\ IncludedNames(pkg) \subseteq EnabledNames

\* A project is ready with a chain of two includes among its packages.
C4_Witness ==
  /\ project_pc = "ready"
  /\ \E i \in 1..Len(packages_by_name) :
       Cardinality(IncludedNames(project_json.packages[packages_by_name[i]])) >= 2

(***************************************************************************)
(* Calls of PackageConfiguration.find_assets on constructed projects:     *)
(* packages A, B and C, where A may include B and C and B may include C;  *)
(* A and C have one import group, B has two, its second one for section   *)
(* "x"; B may exclude a path.                                              *)
(***************************************************************************)
\* The largest number of import groups of an enumerated project, all
\* packages together.
MaxImportGroups == 2

\* <<package slot, position of the group in the package's "imports">>
ImportGroupSlots == {<<1, 1>>, <<2, 1>>, <<2, 2>>, <<3, 1>>}
ImportGroupSeq == <<<<1, 1>>, <<2, 1>>, <<2, 2>>, <<3, 1>>>>

AssetConfigurationJson(sections, paths, metadata) ==
  [sections |-> sections, paths |-> paths, importer_metadata |-> metadata]

\* The files the "paths" of an import group match.
ImportGroupPaths == {{"A/B.cs"}, {"A/B.cs", "C/D.dll"}}

\* The import groups of a project: a function from the groups present to
\* their paths and importer metadata.
ImportGroupSets(max_groups) ==
  UNION {[groups -> [paths : ImportGroupPaths, importer_metadata : ImporterMetadata]] :
           groups \in {g \in SUBSET ImportGroupSlots : Cardinality(g) <= max_groups}}

\* The "imports" list of a package slot.
ImportsOf(groups, slot) ==
  LET present == SelectSeq(ImportGroupSeq,
                           LAMBDA g : g[1] = slot /\ g \in DOMAIN groups)
  IN  [i \in 1..Len(present) |->
         AssetConfigurationJson(IF present[i][2] = 2 THEN {"x"} ELSE {},
                                groups[present[i]].paths,
                                groups[present[i]].importer_metadata)]

FindIncludeEdgeSets == SUBSET {<<1, "B">>, <<1, "C">>, <<2, "C">>}

FindProjects ==
  {[packages |-> [i \in PackageSlots |->
                    PackageJson(PackageNameSeq[i], {}, IncludesOf(edges, i),
                                ImportsOf(groups, i),
                                IF i = 2 THEN excluded ELSE {})],
    builds |-> <<>>, version |-> "1.0.0"] :
     edges \in FindIncludeEdgeSets, groups \in ImportGroupSets(MaxImportGroups),
     excluded \in {{}, {"A/B.cs"}}}

\* project = ProjectConfiguration(json, sections, version) has returned; the
\* receiver and the arguments of the call of find_assets are chosen.
InitFindAssets ==
  /\ NoMetadataCall
  /\ NoMainCall
  /\ NoToolCall
  /\ NoGuidDatabase
  /\ project_json \in FindProjects
  /\ \E sections \in {{}, {"x"}} :
       LET r == set_selected_sections(project_json, NewProjectFields, sections)
       IN  /\ ~r.raised
           /\ selected_sections = r.config.selected_sections
           /\ packages_by_name = r.config.packages_by_name
           /\ builds = r.config.builds
  /\ project_pc = "ready"
  /\ set_result = "returned"
  /\ assets_dirs = NoMetadataFiles
  /\ NoWriteCall
  /\ find_call \in [package : PackageSlots, check_for_duplicates : BOOLEAN,
                    for_upm : BOOLEAN]
  /\ find_result = [ended |-> "not_called", errors |-> {}, assets |-> <<>>]

\* package.find_assets(assets_dirs, check_for_duplicates, for_upm) for an
\* enabled package of the project.
FindAssets ==
  /\ project_pc = "ready"
  /\ \E i \in 1..Len(packages_by_name) : packages_by_name[i] = find_call.package
  /\ find_result' = find_assets(project_json, ProjectFields, assets_dirs,
                                find_call.package, find_call.check_for_duplicates,
                                find_call.for_upm)
  /\ UNCHANGED <<metadata_vars, main_vars, tool_vars,
                 guid_vars, read_vars, project_vars, find_call, assets_dirs,
                 write_vars, export_vars>>

NextFindAssets == FindAssets

SpecFindAssets == InitFindAssets /\ [][NextFindAssets]_vars

(***************************************************************************)
(* Claims about find_assets.                                               *)
(***************************************************************************)
FindReceiver == project_json.packages[find_call.package]

EnabledPackage(name) ==
  project_json.packages[PackageNamed(project_json, packages_by_name, name)]

\* What the enabled import groups of a package contribute: the export paths
\* with the effective importer metadata the group gives them.
OwnEntries(pkg) ==
  {[package_name |-> pkg.name, filename |-> gp[2],
    metadata |-> importer_metadata(
                   Asset(gp[2], pkg.imports[gp[1]].importer_metadata, "", FALSE))] :
     gp \in {c \in (1..Len(pkg.imports)) \X Paths :
               /\ get_enabled(pkg.imports[c[1]].sections, selected_sections)
               /\ c[2] \in pkg.imports[c[1]].paths}}

\* What an included package hands to the package including it: the asset
\* list its own find_assets returns without strict checking.
ReturnedEntries(name) ==
  LET returned == find_assets(project_json, ProjectFields, assets_dirs,
                              PackageNamed(project_json, packages_by_name, name),
                              FALSE, FALSE).assets
  IN  {[package_name |-> name, filename |-> returned[k].filename,
        metadata |-> importer_metadata(returned[k])] : k \in 1..Len(returned)}

\* The export paths a set of entries gives more than one metadata document.
ConflictingPaths(entries) ==
  {f \in Paths : Cardinality({e.metadata : e \in {x \in entries : x.filename = f}}) > 1}

\* C5, as claimed: a strict call of find_assets (not for UPM) raises
\* ProjectConfigurationError whenever the package itself and the packages it
\* transitively includes contribute the same export path with more than one
\* distinct importer-metadata document, and the error names every such path
\* together with packages that contribute it.
C5_ConflictsAlwaysRaise ==
  (find_result.ended # "not_called" /\ find_call.check_for_duplicates
     /\ ~find_call.for_upm) =>
    LET contributed == OwnEntries(FindReceiver) \cup
          UNION {OwnEntries(EnabledPackage(n)) : n \in IncludedNames(FindReceiver)}
    IN  ConflictingPaths(contributed) # {} =>
          /\ find_result.ended = "ProjectConfigurationError"
          /\ \A f \in ConflictingPaths(contributed) :
               \E e \in find_result.errors :
                 /\ e.filename = f
                 /\ e.packages \subseteq
                      {x.package_name : x \in {y \in contributed : y.filename = f}}

\* C5, amended: a strict call of find_assets raises ProjectConfigurationError
\* exactly when the lists it merges (the assets of the package's own enabled
\* import groups and, unless the call is for UPM, the asset list that each
\* transitively included package returns, which is already deduplicated and
\* filtered by that package's exclude_paths) give one export path more than
\* one distinct effective importer metadata; the error names exactly those
\* paths, each with packages that hold the path, two of them with differing
\* metadata.
C5_MergedConflictsRaise ==
  (find_result.ended # "not_called" /\ find_call.check_for_duplicates) =>
    LET merged == OwnEntries(FindReceiver) \cup
          (IF find_call.for_upm THEN {}
           ELSE UNION {ReturnedEntries(n) : n \in IncludedNames(FindReceiver)})
    IN  /\ (find_result.ended = "ProjectConfigurationError")
              <=> (ConflictingPaths(merged) # {})
        /\ {e.filename : e \in find_result.errors} = ConflictingPaths(merged)
        /\ \A e \in find_result.errors :
             LET holders == {x \in merged : x.filename = e.filename}
             IN  /\ e.packages \subseteq {x.package_name : x \in holders}
                 /\ \E x, y \in holders :
                      /\ x.metadata # y.metadata
                      /\ {x.package_name, y.package_name} \subseteq e.packages

\* A strict call on package A raised, naming package C for a path, although A
\* includes C only through B.
C5_Witness ==
  /\ find_call.package = 1
  /\ find_call.check_for_duplicates
  /\ find_result.ended = "ProjectConfigurationError"
  /\ \A k \in 1..Len(FindReceiver.includes) : FindReceiver.includes[k] # "C"
  /\ \E e \in find_result.errors : "C" \in e.packages

(***************************************************************************)
(* One call of package.write or package.write_upm on a project of two      *)
(* packages: A imports A/B.cs and may include B; B imports C/D.dll, or     *)
(* A/B.cs with other metadata, or A/B.cs twice with different metadata.    *)
(***************************************************************************)
\* The paths of the GUID database in sorted order and the GUID each has in
\* the project's GUID file.
LookupPathSeq ==
  <<"A/A_version-1.0.0_manifest.txt", "A/B.cs", "A/B_version-1.0.0_manifest.txt",
    "C/D.dll", "com.a/A", "com.a/C", "com.a/README.md", "com.a/package.json">>
LookupGuidSeq == <<"g3", "g1", "g4", "g2", "g5", "g6", "g7", "g8">>

\* The database constructed from a GUID file that has every path but those
\* of `absent`, from path i on.
RECURSIVE DatabaseWithout(_, _, _)
DatabaseWithout(db, absent, i) ==
  IF i > Len(LookupPathSeq) THEN db
  ELSE DatabaseWithout(IF LookupPathSeq[i] \in absent THEN db
                       ELSE add_guid(db, LookupPathSeq[i], LookupGuidSeq[i]),
                       absent, i + 1)

\* What the GUID file lacks and the GUID in the metadata file of C/D.dll.
GuidCases ==
  {[absent |-> {}, metadata_file |-> NoGuid],
   [absent |-> {}, metadata_file |-> "g2"],
   [absent |-> {}, metadata_file |-> "g1"],
   [absent |-> {"A/B.cs"}, metadata_file |-> NoGuid],
   [absent |-> {"A/B.cs"}, metadata_file |-> "g3"],
   [absent |-> {"C/D.dll"}, metadata_file |-> NoGuid],
   [absent |-> {"A/B.cs", "C/D.dll", "A/A_version-1.0.0_manifest.txt",
                "com.a/package.json"}, metadata_file |-> NoGuid]}

\* The "readme" and "documentation" of package A and what assets_dirs has
\* for them.
DocumentCases ==
  {[readme |-> NoFilename, readme_found |-> FALSE,
    documentation |-> NoFilename, found |-> "absent"],
   [readme |-> "README.md", readme_found |-> TRUE,
    documentation |-> "Docs", found |-> "file"],
   [readme |-> "README.md", readme_found |-> FALSE,
    documentation |-> NoFilename, found |-> "absent"],
   [readme |-> NoFilename, readme_found |-> FALSE,
    documentation |-> "Docs", found |-> "dir"],
   [readme |-> NoFilename, readme_found |-> FALSE,
    documentation |-> "Docs", found |-> "dir_without_index"],
   [readme |-> NoFilename, readme_found |-> FALSE,
    documentation |-> "Docs", found |-> "absent"]}

AssetsDirs(guids, documents) ==
  [metadata_files |-> [p \in Paths |-> IF p = "C/D.dll" THEN guids.metadata_file
                                       ELSE NoGuid],
   readme |-> documents.readme_found,
   documentation |-> documents.found]

\* The import groups of package B.
IncludedImports ==
  {<<AssetConfigurationJson({}, {"C/D.dll"}, DefaultMetadata)>>,
   <<AssetConfigurationJson({}, {"A/B.cs"}, [guid |-> NoGuid, Any |-> 1, Editor |-> 0])>>,
   <<AssetConfigurationJson({}, {"A/B.cs"}, DefaultMetadata),
     AssetConfigurationJson({}, {"A/B.cs"}, [guid |-> NoGuid, Any |-> 1, Editor |-> 0])>>}

WritePackageA(include, manifest_path, common_package_name, documents) ==
  [PackageJson("A", {}, IF include THEN <<"B">> ELSE <<>>,
               <<AssetConfigurationJson({}, {"A/B.cs"}, DefaultMetadata)>>, {})
     EXCEPT !.manifest_path = manifest_path,
            !.common_package_name = common_package_name,
            !.export_upm = 1,
            !.readme = documents.readme,
            !.documentation = documents.documentation]

WritePackageB(sections, imports, manifest_path, export_upm) ==
  [PackageJson("B", sections, <<>>, imports, {})
     EXCEPT !.manifest_path = manifest_path, !.export_upm = export_upm]

\* A project constructed from `json` with `sections` selected, and a GUID
\* database constructed from a GUID file.
ProjectAndDatabase(json, sections, guids) ==
  LET assigned == set_selected_sections(json, NewProjectFields, sections)
      db == DatabaseWithout(EmptyDatabase, guids.absent, 1)
  IN  /\ project_json = json
      /\ selected_sections = assigned.config.selected_sections
      /\ packages_by_name = assigned.config.packages_by_name
      /\ builds = assigned.config.builds
      /\ project_pc = "ready"
      /\ set_result = "returned"
      /\ guids_json = <<>>
      /\ plugin_version = NoVersion
      /\ guids_by_path = db.guids_by_path
      /\ paths_by_guid = db.paths_by_guid
      /\ guid_pc = "ready"
      /\ ReadNotCalled

InitPackageWrite ==
  /\ NoMetadataCall
  /\ NoMainCall
  /\ NoToolCall
  /\ NoFindCall
  /\ NoExportCall
  /\ \E include \in BOOLEAN, imports \in IncludedImports,
        manifest_path \in {NoFilename, "A"},
        common_package_name \in {NoFilename, "com.a"},
        documents \in DocumentCases, export_upm \in {0, 1}, guids \in GuidCases,
        call \in [package : {1, 2}, for_upm : BOOLEAN,
                  package_filename : {NoFilename, "out"}] :
       \* a call of write reads none of the settings of write_upm
       /\ ~call.for_upm =>
            /\ common_package_name = NoFilename
            /\ export_upm = 0
            /\ documents.readme = NoFilename /\ documents.documentation = NoFilename
       /\ ProjectAndDatabase(
            [packages |-> <<WritePackageA(include, manifest_path,
                                          common_package_name, documents),
                            WritePackageB({}, imports, manifest_path, export_upm)>>,
             builds |-> <<BuildJson("b1", {}, {})>>,
             version |-> "1.0.0"], {}, guids)
       /\ assets_dirs = AssetsDirs(guids, documents)
       /\ write_call = call
  /\ write_frame = [NoWriteFrame EXCEPT !.pc = "called"]
  /\ temporary_dir = "none"
  /\ archives = {}

\* The record of the call followed.
WriteState ==
  [pc |-> write_frame.pc, unity_package_file |-> write_frame.unity_package_file,
   assets |-> write_frame.assets, stage_index |-> write_frame.stage_index,
   staged |-> write_frame.staged, error |-> write_frame.error,
   temporary_dir |-> temporary_dir,
   db |-> [guids_by_path |-> guids_by_path, paths_by_guid |-> paths_by_guid],
   archives |-> archives]

FrameOf(w) ==
  [pc |-> w.pc, unity_package_file |-> w.unity_package_file, assets |-> w.assets,
   stage_index |-> w.stage_index, staged |-> w.staged, error |-> w.error]

\* The step of the call at position pc takes the call to w.
WriteAt(pc, w) ==
  /\ project_pc = "ready"
  /\ write_frame.pc = pc
  /\ write_frame' = FrameOf(w)
  /\ temporary_dir' = w.temporary_dir
  /\ guids_by_path' = w.db.guids_by_path
  /\ paths_by_guid' = w.db.paths_by_guid
  /\ archives' = w.archives
  /\ UNCHANGED <<metadata_vars, main_vars, tool_vars,
                 guids_json, plugin_version, guid_pc, read_vars, project_vars,
                 find_vars, assets_dirs, write_call, export_vars>>

Write_Mkdtemp ==
  \E fail \in BOOLEAN :
    WriteAt("called", write_mkdtemp(project_json, write_call, WriteState, fail))

Write_Makedirs ==
  \E fail \in BOOLEAN : WriteAt("makedirs", write_makedirs(WriteState, fail))

Write_FindAssets ==
  \E fail \in BOOLEAN :
    WriteAt("find_assets",
            write_find_assets(project_json, ProjectFields, assets_dirs, write_call,
                              WriteState, fail))

Write_UpmManifest ==
  \E fail \in BOOLEAN :
    WriteAt("write_upm_manifest",
            write_write_upm_manifest(project_json, ProjectFields, write_call,
                                     WriteState, fail))

Write_Manifest ==
  \E fail \in BOOLEAN :
    WriteAt("write_manifest",
            write_write_manifest(project_json, write_call, WriteState, fail))

Write_IncludeManifests ==
  \E fail \in BOOLEAN :
    WriteAt("include_manifests",
            write_include_manifests(project_json, ProjectFields, assets_dirs,
                                    write_call, WriteState, fail))

Write_UpmDocuments ==
  WriteAt("upm_documents",
          write_upm_documents(project_json, assets_dirs, write_call, WriteState))

Write_ReadGuids == WriteAt("read_guids", write_read_guids(WriteState))

Write_StageAsset ==
  \E fail \in BOOLEAN : WriteAt("stage", write_stage(write_call, WriteState, fail))

Write_Documentation ==
  \E fail \in BOOLEAN :
    WriteAt("documentation",
            write_documentation(project_json, assets_dirs, write_call, WriteState,
                                fail))

Write_CreateArchive ==
  \E fail \in BOOLEAN :
    WriteAt("create_archive", write_create_archive(WriteState, fail))

Write_Rmtree == WriteAt("rmtree", write_rmtree(WriteState))

NextPackageWrite ==
  \/ Write_Mkdtemp
  \/ Write_Makedirs
  \/ Write_FindAssets
  \/ Write_UpmManifest
  \/ Write_Manifest
  \/ Write_IncludeManifests
  \/ Write_UpmDocuments
  \/ Write_ReadGuids
  \/ Write_StageAsset
  \/ Write_Documentation
  \/ Write_CreateArchive
  \/ Write_Rmtree

SpecPackageWrite == InitPackageWrite /\ [][NextPackageWrite]_vars

WriteEnded == write_frame.pc \in {"returned", "raised"}

\* C8: after a call of write or write_upm has returned or raised, whatever
\* the step that failed, the temporary directory the call created no longer
\* exists; the only calls that end without having removed a directory are
\* those that failed before one was created.
C8_TemporaryDirRemoved ==
  WriteEnded =>
    /\ temporary_dir # "exists"
    /\ temporary_dir = "none" =>
         /\ write_frame.error.type \in {"TypeError", "OSError"}
         /\ write_frame.assets = <<>>

\* A write_upm call raised MissingGuidsError after it had resolved its assets,
\* and its temporary directory is removed.
C8_Witness ==
  /\ write_frame.pc = "raised"
  /\ write_call.for_upm
  /\ write_frame.error.type = "MissingGuidsError"
  /\ Len(write_frame.assets) >= 2
  /\ temporary_dir = "removed"

\* The positions of a call in the order of the method, the two ends last.
WriteOrder ==
  <<"called", "makedirs", "find_assets", "write_upm_manifest", "write_manifest",
    "include_manifests", "upm_documents", "read_guids", "stage", "documentation",
    "create_archive", "rmtree", "returned", "raised">>
WritePosition(pc) == CHOOSE i \in 1..Len(WriteOrder) : WriteOrder[i] = pc

\* The entries of the staging directory.
StagedEntries == {write_frame.staged[i] : i \in 1..Len(write_frame.staged)}

\* C9: a package export moves forward only, through resolve assets, write
\* manifest, populate GUIDs, stage each asset and archive; once a step has
\* failed no further step but the cleanup is taken and no archive is
\* created; and the archive is created only when GUID population has
\* succeeded (every asset has a GUID in the database and no GUID has two
\* paths) and every asset has been staged under its GUID.
C9_ArchiveAfterGuidsAndStaging ==
  [][/\ write_frame.pc' # write_frame.pc =>
          WritePosition(write_frame.pc') > WritePosition(write_frame.pc)
     /\ write_frame.error # NoError =>
          /\ archives' = archives
          /\ write_frame'.pc \in {"rmtree", "raised"}
     /\ archives' # archives =>
          /\ write_frame.pc = "create_archive"
          /\ write_frame.error = NoError
          /\ archives' = archives \cup {write_frame.unity_package_file}
          /\ write_frame.stage_index = Len(write_frame.assets) + 1
          /\ \A g \in AllGuids : Cardinality(paths_by_guid[g]) <= 1
          /\ \A i \in 1..Len(write_frame.assets) :
               LET asset == write_frame.assets[i]
               IN  /\ guids_by_path[asset.filename_guid_lookup] # NoGuid
                   /\ (write_call.for_upm \/ ~asset.is_folder) =>
                        [filename |-> asset.filename,
                         guid |-> guids_by_path[asset.filename_guid_lookup]]
                          \in StagedEntries]_vars

\* A call of write returned having staged three assets, a manifest among
\* them, and created the archive.
C9_Witness ==
  /\ write_frame.pc = "returned"
  /\ ~write_call.for_upm
  /\ Len(write_frame.staged) >= 3
  /\ \E i \in 1..Len(write_frame.staged) :
       write_frame.staged[i].filename = "A/A_version-1.0.0_manifest.txt"
  /\ write_frame.unity_package_file \in archives

(***************************************************************************)
(* One call of project.write on a project of the packages A and B with one *)
(* or two build configurations.                                            *)
(***************************************************************************)
PackageNameReplacement(match, replacement) ==
  [match |-> match, replacement |-> replacement]

\* The "builds" of the project.
ExportBuilds ==
  {<<BuildJson("b1", {}, {})>>,
   <<BuildJson("b1", {}, {}), BuildJson("b2", {}, {"x"})>>,
   <<BuildJson("b1", {}, {}),
     [BuildJson("b2", {}, {"x"}) EXCEPT !.package_name_replacements =
        <<PackageNameReplacement("^A$", "A2")>>]>>,
   <<BuildJson("b1", {}, {}),
     [BuildJson("b2", {}, {}) EXCEPT !.package_name_replacements =
        <<PackageNameReplacement("^A$", "A2"), PackageNameReplacement("^B$", "B2")>>]>>,
   <<BuildJson("b1", {}, {}),
     [BuildJson("b2", {}, {}) EXCEPT !.package_name_replacements =
        <<PackageNameReplacement("^A$", "B")>>]>>,
   <<BuildJson("b1", {}, {}),
     [BuildJson("b2", {}, {}) EXCEPT !.package_name_replacements =
        <<PackageNameReplacement("^com.a-1.0.0.tgz$", "com.a-debug-1.0.0.tgz")>>]>>}

\* The steps of a package write whose file system operation may fail.
WriteFailurePoints == {"none", "create_archive"}

InitProjectWrite ==
  /\ NoMetadataCall
  /\ NoMainCall
  /\ NoToolCall
  /\ NoFindCall
  /\ \E include \in BOOLEAN, sections \in {{}, {"x"}}, export_upm \in {0, 1},
        all_builds \in ExportBuilds, guids \in GuidCases,
        selected \in {{}, {"x"}} :
       /\ ProjectAndDatabase(
            [packages |-> <<WritePackageA(include, NoFilename, "com.a",
                                          CHOOSE d \in DocumentCases :
                                            /\ d.readme = NoFilename
                                            /\ d.documentation = NoFilename),
                            WritePackageB(sections,
                              <<AssetConfigurationJson({}, {"C/D.dll"}, DefaultMetadata)>>,
                              NoFilename, export_upm)>>,
             builds |-> all_builds,
             version |-> "1.0.0"], selected, guids)
       /\ assets_dirs = AssetsDirs(guids, CHOOSE d \in DocumentCases :
                                            /\ d.readme = NoFilename
                                            /\ d.documentation = NoFilename)
  /\ write_call = [package |-> 0, for_upm |-> FALSE, package_filename |-> NoFilename]
  /\ write_frame = NoWriteFrame
  /\ temporary_dir = "none"
  /\ archives = {}
  /\ export_call \in [for_upm : BOOLEAN]
  /\ export_frame = NoExportFrame
  /\ package_writes = <<>>

\* The exception leaves project.write through
\* `finally: self.selected_sections = selected_sections`.
ExportRaises(config, frame, error) ==
  LET restored == restore_selected_sections(project_json, config,
                                            frame.selected_sections)
  IN  /\ selected_sections' = restored.selected_sections
      /\ packages_by_name' = restored.packages_by_name
      /\ builds' = restored.builds
      /\ export_frame' = [frame EXCEPT !.pc = "raised", !.error = error]

\* The lookup keys and GUIDs that a call of package.write which returned
\* passed to asset.write: guid_database.get_guid(asset.filename_guid_lookup)
\* of every asset it staged.
written_guids(call, w) ==
  IF w.error.type # "" THEN {}
  ELSE {<<w.assets[i].filename_guid_lookup,
          get_guid(w.db, w.assets[i].filename_guid_lookup)>> :
          i \in {k \in 1..Len(w.assets) : call.for_upm \/ ~w.assets[k].is_folder}}

\* project.write(guid_database, assets_dirs, output_dir, timestamp, for_upm)
\* up to the check for multiple builds exporting to the same filenames.
ProjectWrite_Begin ==
  /\ project_pc = "ready"
  /\ export_frame.pc = "not_called"
  /\ LET frame == [export_frame EXCEPT !.selected_sections = selected_sections,
                                       !.builds = builds]
         first == package_name_maps(project_json, ProjectFields, selected_sections,
                                    export_call.for_upm, builds, 1, <<>>)
     IN  IF first.error # NoError
         THEN ExportRaises(first.config, frame, first.error)
         ELSE IF duplicate_filenames(first.maps) # {}
              THEN ExportRaises(first.config, frame,
                                Raised("ProjectConfigurationError"))
              ELSE /\ selected_sections' = first.config.selected_sections
                   /\ packages_by_name' = first.config.packages_by_name
                   /\ builds' = first.config.builds
                   /\ export_frame' = [frame EXCEPT !.pc = "apply_build",
                                                    !.maps = first.maps,
                                                    !.build_index = 1]
  /\ UNCHANGED <<metadata_vars, main_vars, tool_vars,
                 project_json, project_pc, set_result, guid_vars, read_vars,
                 find_vars, assets_dirs, write_vars, export_call, package_writes>>

\* The head of the second loop: `self.selected_sections = build_sections`
\* for the next build, or the end of the loop.
ProjectWrite_ApplyBuild ==
  /\ export_frame.pc = "apply_build"
  /\ IF export_frame.build_index > Len(export_frame.maps)
     THEN /\ export_frame' = [export_frame EXCEPT !.pc = "end"]
          /\ UNCHANGED <<selected_sections, packages_by_name, builds>>
     ELSE LET assigned == set_selected_sections(
                            project_json, ProjectFields,
                            export_frame.maps[export_frame.build_index].build_sections)
          IN  IF assigned.raised
              THEN ExportRaises(assigned.config, export_frame,
                                Raised("ProjectConfigurationError"))
              ELSE /\ selected_sections' = assigned.config.selected_sections
                   /\ packages_by_name' = assigned.config.packages_by_name
                   /\ builds' = assigned.config.builds
                   /\ export_frame' = [export_frame EXCEPT !.pc = "write_package",
                                                           !.package_index = 1]
  /\ UNCHANGED <<metadata_vars, main_vars, tool_vars,
                 project_json, project_pc, set_result, guid_vars, read_vars,
                 find_vars, assets_dirs, write_vars, export_call, package_writes>>

\* One iteration of `for package_name, package_filename in
\* package_name_map.items()`: the call of package.write or package.write_upm
\* and the except clauses, or the end of the loop.
ProjectWrite_Package ==
  /\ export_frame.pc = "write_package"
  /\ LET build_map == export_frame.maps[export_frame.build_index]
     IN  IF export_frame.package_index > Len(build_map.package_name_map)
         THEN /\ export_frame' = [export_frame EXCEPT !.pc = "apply_build",
                                                      !.build_index = @ + 1]
              /\ UNCHANGED <<selected_sections, packages_by_name, builds,
                             guids_by_path, paths_by_guid, write_vars,
                             package_writes>>
         ELSE
           \E fail_at \in WriteFailurePoints,
              entry \in {build_map.package_name_map[export_frame.package_index]} :
           \E call \in {[package |-> PackageNamed(project_json, packages_by_name,
                                                  entry.package_name),
                          for_upm |-> export_call.for_upm,
                          package_filename |-> entry.package_filename]} :
           \E w \in {package_write(project_json, ProjectFields, assets_dirs, call,
                                    [WriteState EXCEPT !.pc = "called"], fail_at)} :
             LET continued ==
                   [export_frame EXCEPT
                      !.package_index = @ + 1,
                      !.missing_guid_paths =
                         IF w.error.type = "MissingGuidsError"
                         THEN extend_missing_guid_paths(@, w.error.missing_guid_paths)
                         ELSE @]
             IN  /\ write_call' = call
                 /\ write_frame' = FrameOf(w)
                 /\ temporary_dir' = w.temporary_dir
                 /\ archives' = w.archives
                 /\ guids_by_path' = w.db.guids_by_path
                 /\ paths_by_guid' = w.db.paths_by_guid
                 /\ package_writes' =
                      Append(package_writes,
                             [build |-> build_map.build,
                              package_name |-> entry.package_name,
                              package_filename |-> entry.package_filename,
                              guids |-> written_guids(call, w),
                              error |-> w.error])
                 /\ IF w.error.type \in {"", "MissingGuidsError"}
                    THEN /\ export_frame' = continued
                         /\ UNCHANGED <<selected_sections, packages_by_name, builds>>
                    ELSE ExportRaises(
                           ProjectFields, export_frame,
                           IF w.error.type = "DuplicateGuidsError"
                           THEN Raised("ProjectConfigurationError") ELSE w.error)
  /\ UNCHANGED <<metadata_vars, main_vars, tool_vars,
                 project_json, project_pc, set_result, guids_json, plugin_version,
                 guid_pc, read_vars, find_vars, assets_dirs, export_call>>

\* `if missing_guid_paths: raise MissingGuidsError(missing_guid_paths)`, the
\* finally clause and the return.
ProjectWrite_End ==
  /\ export_frame.pc = "end"
  /\ IF export_frame.missing_guid_paths # {}
     THEN ExportRaises(ProjectFields, export_frame,
                       [type |-> "MissingGuidsError",
                        missing_guid_paths |-> export_frame.missing_guid_paths])
     ELSE LET restored == restore_selected_sections(project_json, ProjectFields,
                                                    export_frame.selected_sections)
          IN  /\ selected_sections' = restored.selected_sections
              /\ packages_by_name' = restored.packages_by_name
              /\ builds' = restored.builds
              /\ export_frame' = [export_frame EXCEPT !.pc = "returned"]
  /\ UNCHANGED <<metadata_vars, main_vars, tool_vars,
                 project_json, project_pc, set_result, guid_vars, read_vars,
                 find_vars, assets_dirs, write_vars, export_call, package_writes>>

NextProjectWrite ==
  \/ ProjectWrite_Begin
  \/ ProjectWrite_ApplyBuild
  \/ ProjectWrite_Package
  \/ ProjectWrite_End

SpecProjectWrite == InitProjectWrite /\ [][NextProjectWrite]_vars

ExportEnded == export_frame.pc \in {"returned", "raised"}

\* The packages a build configuration exports: those enabled for the
\* sections selected at the call together with the build's enabled_sections
\* that have "export" (for_upm: "export_upm") set.
ExportedPackages(build) ==
  {i \in 1..Len(project_json.packages) :
     /\ get_enabled(project_json.packages[i].sections,
                    export_frame.selected_sections
                      \cup project_json.builds[build].enabled_sections)
     /\ IF export_call.for_upm THEN project_json.packages[i].export_upm = 1
        ELSE project_json.packages[i].export = 1}

\* The build configurations enabled at the call.
ExportedBuilds == {export_frame.builds[i] : i \in 1..Len(export_frame.builds)}

\* The package writes every exported package of every enabled build calls
\* for, and those made.
ExpectedWrites ==
  UNION {{<<build, project_json.packages[i].name>> : i \in ExportedPackages(build)} :
           build \in ExportedBuilds}
MadeWrites ==
  {<<package_writes[k].build, package_writes[k].package_name>> :
     k \in 1..Len(package_writes)}

\* The package writes that raised MissingGuidsError and their paths.
WritesMissingGuids ==
  {k \in 1..Len(package_writes) : package_writes[k].error.type = "MissingGuidsError"}
MissingPathsOfWrites ==
  UNION {package_writes[k].error.missing_guid_paths : k \in WritesMissingGuids}

\* The export processed every package and raised one MissingGuidsError with
\* the union of the missing paths.
MissingGuidsReportedInFull ==
  /\ MadeWrites = ExpectedWrites
  /\ export_frame.pc = "raised"
  /\ export_frame.error.type = "MissingGuidsError"
  /\ export_frame.error.missing_guid_paths = MissingPathsOfWrites

OutputFilename(build, i) ==
  LET filename == IF export_call.for_upm THEN tarball_name(project_json, i)
                  ELSE project_json.packages[i].name
  IN  IF filename = NoFilename THEN NoFilename
      ELSE apply_package_name_replacements(
             project_json.builds[build].package_name_replacements, 1, filename)

\* Two enabled build configurations export a package to the same filename.
FilenameCollision ==
  \E b1, b2 \in ExportedBuilds :
    /\ b1 # b2
    /\ \E i1 \in ExportedPackages(b1), i2 \in ExportedPackages(b2) :
         /\ OutputFilename(b1, i1) # NoFilename
         /\ OutputFilename(b1, i1) = OutputFilename(b2, i2)

\* C10: if two build configurations would export a package to the same
\* output filename, project.write raises ProjectConfigurationError and no
\* package write has been started for any build.
C10_CollisionRaisesBeforeWrites ==
  (ExportEnded /\ FilenameCollision) =>
    /\ export_frame.pc = "raised"
    /\ export_frame.error.type = "ProjectConfigurationError"
    /\ package_writes = <<>>

\* Whatever the export raises for a collision, no package write is started
\* when two build configurations export to the same filename.
NoWriteWithFilenameCollision ==
  FilenameCollision => package_writes = <<>>

(***************************************************************************)
(* Reads of the importer_metadata property of an Asset.  The asset is      *)
(* built from an export path and a metadata document, and the property is  *)
(* read up to MaxReads times.                                              *)
(***************************************************************************)
MaxReads == 2

\* No GUID database, project or package is in use.
OnlyMetadata ==
  /\ NoMainCall
  /\ NoToolCall
  /\ NoGuidDatabase
  /\ NoProject
  /\ NoFindCall
  /\ NoWriteCall
  /\ assets_dirs = NoMetadataFiles

InitAssetMetadata ==
  /\ OnlyMetadata
  /\ metadata_asset \in [filename : MetadataFilenames,
                         importer_metadata_original : MetadataDocuments]
  /\ metadata_reads = <<>>
  /\ platform_metadata = None
  /\ platform_filename = NoFilename
  /\ platform_calls = <<>>

\* asset.importer_metadata
ReadImporterMetadata ==
  /\ metadata_asset.filename # NoFilename
  /\ Len(metadata_reads) < MaxReads
  /\ \E read \in {Asset_importer_metadata(metadata_asset.filename,
                                          metadata_asset.importer_metadata_original)} :
       /\ metadata_reads' = Append(metadata_reads, read.returned)
       /\ metadata_asset' =
            [metadata_asset EXCEPT
               !.importer_metadata_original = read.importer_metadata_original]
  /\ UNCHANGED <<guid_vars, read_vars, project_vars, find_vars, assets_dirs,
                 write_vars, export_vars, main_vars, tool_vars, platform_metadata, platform_filename,
                 platform_calls>>

NextAssetMetadata == ReadImporterMetadata

SpecAssetMetadata == InitAssetMetadata /\ [][NextAssetMetadata]_vars

\* C11: a read of Asset.importer_metadata leaves the stored document of the
\* asset (importer_metadata_original) as it was, and every read made of an
\* asset returns what the reads before it returned.
C11_ReadingIsPure ==
  [][/\ metadata_asset' = metadata_asset
     /\ \A i, j \in 1..Len(metadata_reads') :
          metadata_reads'[i] = metadata_reads'[j]]_vars

\* Two reads were made of an asset, and what they returned is a document
\* that differs from the stored one in its PluginImporter section.
C11_Witness ==
  /\ Len(metadata_reads) = 2
  /\ metadata_reads[2].kind = "dict"
  /\ plugin_importer_of(metadata_reads[2])
       # plugin_importer_of(metadata_asset.importer_metadata_original)

(***************************************************************************)
(* Calls of Asset.apply_any_platform_selection on a metadata document,     *)
(* between which the caller disables single platforms of the document.     *)
(***************************************************************************)
MaxCalls == 3

\* The platforms a caller disables.
DisabledPlatforms == {"Editor", "Linux64", "WP8"}

\* The options of a platform in the platform data of a document: the
\* "second" of the first item that names the platform in a list, the value
\* of the platform's key in a dictionary, None when the platform is not in
\* the data.
platform_options(metadata, platform_name) ==
  LET platform_data == dict_get(plugin_importer_of(metadata), "platformData", None)
  IN  IF platform_data.kind = "dict" THEN dict_get(platform_data, platform_name, None)
      ELSE IF platform_data.kind = "list"
      THEN LET named ==
                 {i \in 1..Len(platform_data.items) :
                    LET first == platform_data_get_entry(platform_data.items[i]).first
                    IN  IF platform_name = "Any" THEN has_key(first, "Any")
                        ELSE /\ Len(first.items) > 0
                             /\ first.items[1].value = String(platform_name)}
           IN  IF named = {} THEN None
               ELSE platform_data_get_entry(
                      platform_data.items[CHOOSE i \in named :
                                            \A other \in named : i <= other]).second
      ELSE None

\* Whether the platform is enabled in the document.
platform_enabled(metadata, platform_name) ==
  LET options == platform_options(metadata, platform_name)
  IN  /\ options.kind = "dict"
      /\ truthy(dict_get(options, "enabled", Integer(0)))

\* The document after the caller set "enabled" of the platform to 0, in the
\* dictionary or the list item that holds the options of the platform.
disable_platform(metadata, platform_name) ==
  LET platform_data == dict_get(plugin_importer_of(metadata), "platformData", None)
      options == platform_options(metadata, platform_name)
      disabled == dict_set(options, "enabled", Integer(0))
  IN  IF platform_data.kind = "dict"
      THEN set_platform_data(metadata, dict_set(platform_data, platform_name, disabled))
      ELSE LET i == CHOOSE i \in 1..Len(platform_data.items) :
                      /\ platform_data_get_entry(platform_data.items[i]).second = options
                      /\ LET first == platform_data_get_entry(platform_data.items[i]).first
                         IN  /\ Len(first.items) > 0
                             /\ first.items[1].value = String(platform_name)
                      /\ \A other \in 1..(i - 1) :
                           LET first ==
                                 platform_data_get_entry(platform_data.items[other]).first
                           IN  ~(/\ Len(first.items) > 0
                                 /\ first.items[1].value = String(platform_name))
           IN  set_platform_data(
                 metadata,
                 [platform_data EXCEPT
                    !.items[i] = set_entry_second(platform_data.items[i], disabled)])

InitAnySelection ==
  /\ OnlyMetadata
  /\ metadata_asset = [filename |-> NoFilename, importer_metadata_original |-> None]
  /\ metadata_reads = <<>>
  /\ platform_metadata \in MetadataDocuments
  /\ platform_filename = NoFilename
  /\ platform_calls = <<>>

\* Asset.apply_any_platform_selection(importer_metadata)
ApplyAnyPlatformSelection ==
  /\ platform_metadata.kind = "dict"
  /\ Len(platform_calls) < MaxCalls
  /\ \E returned \in {Asset_apply_any_platform_selection(platform_metadata)} :
       /\ platform_calls' =
            Append(platform_calls,
                   [method |-> "apply_any_platform_selection", argument |-> NoFilename,
                    before |-> platform_metadata, after |-> returned])
       /\ platform_metadata' =
            IF returned.kind = "exception" THEN platform_metadata ELSE returned
  /\ UNCHANGED <<guid_vars, read_vars, project_vars, find_vars, assets_dirs,
                 write_vars, export_vars, main_vars, tool_vars, metadata_asset, metadata_reads,
                 platform_filename>>

\* The caller disables a platform that is enabled in the document.
DisablePlatform ==
  /\ platform_metadata.kind = "dict"
  /\ Len(platform_calls) < MaxCalls
  /\ \E platform_name \in DisabledPlatforms :
       /\ platform_enabled(platform_metadata, platform_name)
       /\ \E disabled \in {disable_platform(platform_metadata, platform_name)} :
            /\ platform_calls' =
                 Append(platform_calls,
                        [method |-> "disable", argument |-> platform_name,
                         before |-> platform_metadata, after |-> disabled])
            /\ platform_metadata' = disabled
  /\ UNCHANGED <<guid_vars, read_vars, project_vars, find_vars, assets_dirs,
                 write_vars, export_vars, main_vars, tool_vars, metadata_asset, metadata_reads,
                 platform_filename>>

NextAnySelection ==
  \/ ApplyAnyPlatformSelection
  \/ DisablePlatform

SpecAnySelection == InitAnySelection /\ [][NextAnySelection]_vars

\* C12: when apply_any_platform_selection was applied to a document in
\* which Any is enabled, one platform was then disabled, and
\* apply_any_platform_selection was applied again, the platform is not
\* enabled in the document the second call returns.
C12_RedisabledPlatformStaysDisabled ==
  \A i \in 1..(Len(platform_calls) - 2) :
    (/\ platform_calls[i].method = "apply_any_platform_selection"
     /\ platform_calls[i].after.kind = "dict"
     /\ platform_enabled(platform_calls[i].before, "Any")
     /\ platform_calls[i + 1].method = "disable"
     /\ platform_calls[i + 2].method = "apply_any_platform_selection"
     /\ platform_calls[i + 2].after.kind = "dict")
      => ~platform_enabled(platform_calls[i + 2].after, platform_calls[i + 1].argument)

(***************************************************************************)
(* A call of Asset.disable_unsupported_platforms on a metadata document    *)
(* and an export path.                                                     *)
(***************************************************************************)
InitDisablePlatforms ==
  /\ OnlyMetadata
  /\ metadata_asset = [filename |-> NoFilename, importer_metadata_original |-> None]
  /\ metadata_reads = <<>>
  /\ platform_metadata \in MetadataDocuments
  /\ platform_filename \in MetadataFilenames
  /\ platform_calls = <<>>

\* Asset.disable_unsupported_platforms(importer_metadata, filename)
DisableUnsupportedPlatforms ==
  /\ platform_filename # NoFilename
  /\ platform_calls = <<>>
  /\ \E ended \in {disable_unsupported_platforms_in_place(platform_metadata,
                                                          platform_filename)} :
       /\ platform_calls' =
            <<[method |-> "disable_unsupported_platforms",
               argument |-> platform_filename,
               before |-> platform_metadata,
               after |-> IF ended.raised THEN Exception("KeyError")
                         ELSE ended.metadata]>>
       /\ platform_metadata' = ended.metadata
  /\ UNCHANGED <<guid_vars, read_vars, project_vars, find_vars, assets_dirs,
                 write_vars, export_vars, main_vars, tool_vars, metadata_asset, metadata_reads,
                 platform_filename>>

NextDisablePlatforms == DisableUnsupportedPlatforms

SpecDisablePlatforms == InitDisablePlatforms /\ [][NextDisablePlatforms]_vars

\* The platforms a shared library with the extension can be loaded on.
PlatformsValidFor(extension) ==
  CASE extension = ".so" -> {"Any", "Editor", "Linux", "Linux64", "LinuxUniversal"}
    [] extension = ".bundle" -> {"Any", "Editor", "OSXIntel", "OSXIntel64", "OSXUniversal"}
    [] extension = ".dll" -> {"Any", "Editor", "Win", "Win64"}
    [] OTHER -> {}

\* Whether the document has version-1 platform data: a dictionary by
\* platform name under serializedVersion 1.
version_1_platform_data(metadata) ==
  /\ serialized_version_of(metadata) = Integer(1)
  /\ dict_get(plugin_importer_of(metadata), "platformData", None).kind = "dict"

\* The platforms the platform data of a version-1 document has.
platforms_of(metadata) ==
  LET platform_data == dict_get(plugin_importer_of(metadata), "platformData", None)
  IN  {platform_data.items[i].key : i \in 1..Len(platform_data.items)}

\* What C13 says of one call of disable_unsupported_platforms.
disabled_by_extension(call) ==
  LET extension == SplitFilename(call.argument).ext
  IN  IF extension \in {".so", ".bundle", ".dll"}
      THEN version_1_platform_data(call.before)
             => /\ call.after.kind = "dict"
                /\ \A platform_name \in platforms_of(call.after) \ PlatformsValidFor(extension) :
                     ~platform_enabled(call.after, platform_name)
                /\ (\E platform_name \in platforms_of(call.before) :
                      /\ platform_enabled(call.before, platform_name)
                      /\ ~platform_enabled(call.after, platform_name))
                     => ~platform_enabled(call.after, "Any")
      ELSE call.after = call.before

\* C13: after disable_unsupported_platforms on an export path with the
\* extension .so, .bundle or .dll and a document with version-1 platform
\* data, every platform outside those the extension is valid for is
\* disabled, and Any is disabled when a platform was disabled; on any other
\* export path the document is returned as it was.
C13_DisabledByExtension ==
  \A i \in 1..Len(platform_calls) :
    platform_calls[i].method = "disable_unsupported_platforms"
      => disabled_by_extension(platform_calls[i])

\* The same for the calls on an export path under a Plugins/x86 or
\* Plugins/x86_64 directory and a document that names platforms of the
\* template only.
DisabledByExtensionOfPluginLibrary ==
  \A i \in 1..Len(platform_calls) :
    (/\ platform_calls[i].method = "disable_unsupported_platforms"
     /\ SHARED_LIBRARY_PATH(platform_calls[i].argument)
     /\ version_1_platform_data(platform_calls[i].before)
          => \A platform_name \in platforms_of(platform_calls[i].before) :
               has_key(TEMPLATE_PLATFORM_DATA, platform_name))
      => disabled_by_extension(platform_calls[i])

\* The desktop platforms: those that have a CPU of their own.
DesktopPlatforms ==
  {"Linux", "Linux64", "LinuxUniversal", "OSXIntel", "OSXIntel64", "OSXUniversal",
   "Win", "Win64"}

\* The options of every entry of the platform data of a document that is
\* for a desktop platform and is enabled, in either shape of the data.
enabled_desktop_options(metadata) ==
  LET platform_data == dict_get(plugin_importer_of(metadata), "platformData", None)
  IN  IF platform_data.kind = "dict"
      THEN {platform_data.items[i].value :
              i \in {k \in 1..Len(platform_data.items) :
                       /\ platform_data.items[k].key \in DesktopPlatforms
                       /\ platform_data.items[k].value.kind = "dict"
                       /\ truthy(dict_get(platform_data.items[k].value, "enabled",
                                          Integer(0)))}}
      ELSE IF platform_data.kind = "list"
      THEN {platform_data_get_entry(platform_data.items[i]).second :
              i \in {k \in 1..Len(platform_data.items) :
                       LET entry == platform_data_get_entry(platform_data.items[k])
                       IN  /\ Len(entry.first.items) > 0
                           /\ entry.first.items[1].value
                                \in {String(platform_name) :
                                       platform_name \in DesktopPlatforms}
                           /\ truthy(dict_get(entry.second, "enabled", Integer(0)))}}
      ELSE {}

\* Whether the options of a platform have a CPU other than "None".
has_concrete_cpu(options) ==
  LET settings == dict_get(options, "settings", None)
  IN  /\ settings.kind = "dict"
      /\ has_key(settings, "CPU")
      /\ dict_get(settings, "CPU", None) \notin {None, String("None")}

\* C14: in every document a read of Asset.importer_metadata returns, every
\* enabled desktop platform has a CPU, and it is not "None".
C14_EnabledDesktopPlatformHasCpu ==
  \A i \in 1..Len(metadata_reads) :
    metadata_reads[i].kind = "dict"
      => \A options \in enabled_desktop_options(metadata_reads[i]) :
           has_concrete_cpu(options)

\* A read returned a document with list-shaped platform data in which a
\* desktop platform is enabled whose CPU the stored document does not give.
C14_Witness ==
  /\ Len(metadata_reads) > 0
  /\ metadata_reads[1].kind = "dict"
  /\ dict_get(plugin_importer_of(metadata_reads[1]), "platformData", None).kind = "list"
  /\ \E platform_name \in DesktopPlatforms :
       /\ platform_enabled(metadata_reads[1], platform_name)
       /\ platform_enabled(metadata_asset.importer_metadata_original, platform_name)
       /\ ~has_concrete_cpu(platform_options(metadata_asset.importer_metadata_original,
                                             platform_name))
       /\ has_concrete_cpu(platform_options(metadata_reads[1], platform_name))

\* The blocks of a list whose "sections" allow-list is empty or has a
\* section in common with the selected sections.
AllowedBlocks(blocks, sections) ==
  {i \in 1..Len(blocks) :
     blocks[i].sections = {} \/ blocks[i].sections \cap sections # {}}

\* C15: after every assignment to selected_sections of a constructed
\* project, whether it returned or raised, packages_by_name holds exactly
\* the packages and builds exactly the build configurations whose allow-list
\* is empty or intersects the current selected_sections; and an assignment
\* of a larger section set removes no package and no build.
C15_EnabledBlocksFollowSections ==
  [][project_pc' = "ready" =>
       /\ {packages_by_name'[i] : i \in 1..Len(packages_by_name')}
            = AllowedBlocks(project_json'.packages, selected_sections')
       /\ {builds'[i] : i \in 1..Len(builds')}
            = AllowedBlocks(project_json'.builds, selected_sections')
       /\ (project_pc = "ready" /\ selected_sections \subseteq selected_sections')
            => /\ {packages_by_name[i] : i \in 1..Len(packages_by_name)}
                    \subseteq {packages_by_name'[i] : i \in 1..Len(packages_by_name')}
               /\ {builds[i] : i \in 1..Len(builds)}
                    \subseteq {builds'[i] : i \in 1..Len(builds')}]_vars

\* An assignment raised on a project that has a package and a build that
\* are not enabled and a section selected.
C15_Witness ==
  /\ project_pc = "ready"
  /\ set_result = "ProjectConfigurationError"
  /\ selected_sections # {}
  /\ Len(packages_by_name) < Len(project_json.packages)
  /\ Len(builds) < Len(project_json.builds)

\* The GUID of the metadata of the last asset of a list that has the lookup
\* key and carries a GUID; NoGuid when no asset of the list does.
LastMetadataGuid(assets, path) ==
  LET carrying == {i \in 1..Len(assets) :
                     /\ posix_path(assets[i].filename_guid_lookup) = path
                     /\ assets[i].guid # NoGuid}
  IN  IF carrying = {} THEN NoGuid
      ELSE assets[CHOOSE i \in carrying : \A other \in carrying : other <= i].guid

C17_OnlyVersionsUpToTarget ==
  (guid_pc = "ready" /\ plugin_version # NoVersion) =>
    \A p \in Paths :
      /\ GuidsAt(guids_json, plugin_version, p) # {}
           => guids_by_path[p] \in GuidsAt(guids_json, plugin_version, p)
      /\ guids_by_path[p] # NoGuid
           => \E w \in DOMAIN guids_json :
                /\ ~VersionLess(plugin_version, w)
                /\ guids_by_path[p] \in GuidsAt(guids_json, w, p)

\* The second half of C17 alone: no path resolves to a GUID that the store
\* gives it only at versions later than the target version.
NoGuidFromLaterVersion ==
  (guid_pc = "ready" /\ plugin_version # NoVersion) =>
    \A p \in Paths :
      guids_by_path[p] # NoGuid
        => \E w \in DOMAIN guids_json :
             /\ ~VersionLess(plugin_version, w)
             /\ guids_by_path[p] \in GuidsAt(guids_json, w, p)

\* The first half of C17 for the paths that every version of the store
\* writes the way the target version does.
PinnedGuidOfSameSpelling ==
  (guid_pc = "ready" /\ plugin_version # NoVersion) =>
    \A p \in Paths :
      (/\ GuidsAt(guids_json, plugin_version, p) # {}
       /\ \A w \in DOMAIN guids_json, q \in RawPaths :
            (posix_path(q) = p /\ guids_json[w][q] # NoGuid)
              => StoreMap(guids_json, plugin_version)[q] # NoGuid)
        => guids_by_path[p] \in GuidsAt(guids_json, plugin_version, p)

\* The assets the enabled import groups of the package of the find_assets
\* call hand in, in the order of the groups.
OwnAssets ==
  LET package == FindReceiver
      groups == SelectSeq([i \in 1..Len(package.imports) |-> i],
                          LAMBDA i : package.imports[i].sections = {}
                                     \/ package.imports[i].sections
                                          \cap selected_sections # {})
  IN  Extend([i \in 1..Len(groups) |->
                asset_config_find_assets(package.imports[groups[i]], assets_dirs)], 1)

\* The assets the transitively included packages hand in, in the order of
\* the includes: the list each of them returns; none in a call for UPM.
IncludedAssets ==
  LET includes == IF find_call.for_upm THEN <<>>
                  ELSE get_includes(project_json, packages_by_name, find_call.package)
  IN  Extend([i \in 1..Len(includes) |->
                find_assets(project_json, ProjectFields, assets_dirs, includes[i],
                            FALSE, FALSE).assets], 1)

Contributions == OwnAssets \o IncludedAssets

\* C18: the list find_assets returns has at most one asset for an export
\* path, and the asset it has for a path is the first one the contributors
\* hand in for that path, the package's own imports coming before the
\* packages it includes.
C18_FirstOccurrenceKept ==
  find_result.ended = "returned" =>
    /\ \A i, j \in 1..Len(find_result.assets) :
         find_result.assets[i].filename = find_result.assets[j].filename => i = j
    /\ \A i \in 1..Len(find_result.assets) :
         \E k \in 1..Len(Contributions) :
           /\ Contributions[k] = find_result.assets[i]
           /\ \A earlier \in 1..(k - 1) :
                Contributions[earlier].filename # find_result.assets[i].filename

\* A call returned a path that the package itself and a package it includes
\* hand in with different metadata.
C18_Witness ==
  /\ find_result.ended = "returned"
  /\ \E i \in 1..Len(find_result.assets), k \in 1..Len(OwnAssets),
        l \in 1..Len(IncludedAssets) :
       /\ OwnAssets[k] = find_result.assets[i]
       /\ IncludedAssets[l].filename = OwnAssets[k].filename
       /\ IncludedAssets[l] # OwnAssets[k]

(***************************************************************************)
(* Calls of merge_ordered_dicts with a metadata document, or the           *)
(* PluginImporter section of one, and an empty document.                   *)
(***************************************************************************)
MaxMerges == 2

MergeDocuments ==
  MetadataDocuments
    \cup {plugin_importer_of(document) : document \in MetadataDocuments}

InitMerge ==
  /\ OnlyMetadata
  /\ metadata_asset = [filename |-> NoFilename, importer_metadata_original |-> None]
  /\ metadata_reads = <<>>
  /\ platform_metadata \in MergeDocuments
  /\ platform_filename = NoFilename
  /\ platform_calls = <<>>

\* merge_ordered_dicts(document, collections.OrderedDict())
MergeEmptyIntoDocument ==
  /\ platform_metadata.kind = "dict"
  /\ Len(platform_calls) < MaxMerges
  /\ \E returned \in {merge_ordered_dicts(platform_metadata, OrderedDict(<<>>))} :
       /\ platform_calls' =
            Append(platform_calls,
                   [method |-> "merge_ordered_dicts", argument |-> OrderedDict(<<>>),
                    before |-> platform_metadata, after |-> returned])
       /\ platform_metadata' = returned
  /\ UNCHANGED <<guid_vars, read_vars, project_vars, find_vars, assets_dirs,
                 write_vars, export_vars, main_vars, tool_vars, metadata_asset, metadata_reads,
                 platform_filename>>

\* merge_ordered_dicts(collections.OrderedDict(), document)
MergeDocumentIntoEmpty ==
  /\ platform_metadata.kind = "dict"
  /\ Len(platform_calls) < MaxMerges
  /\ \E returned \in {merge_ordered_dicts(OrderedDict(<<>>), platform_metadata)} :
       platform_calls' =
         Append(platform_calls,
                [method |-> "merge_ordered_dicts", argument |-> platform_metadata,
                 before |-> OrderedDict(<<>>), after |-> returned])
  /\ UNCHANGED <<guid_vars, read_vars, project_vars, find_vars, assets_dirs,
                 write_vars, export_vars, main_vars, tool_vars, metadata_asset, metadata_reads,
                 platform_metadata, platform_filename>>

NextMerge ==
  \/ MergeEmptyIntoDocument
  \/ MergeDocumentIntoEmpty

SpecMerge == InitMerge /\ [][NextMerge]_vars

\* C20: merge_ordered_dicts of an empty document into a document returns
\* the document as it was, and merge_ordered_dicts of a document into an
\* empty document returns a document equal to it, keys in the same order.
C20_MergeIdentities ==
  \A i \in 1..Len(platform_calls) :
    platform_calls[i].method = "merge_ordered_dicts" =>
      /\ platform_calls[i].argument = OrderedDict(<<>>)
           => platform_calls[i].after = platform_calls[i].before
      /\ platform_calls[i].before = OrderedDict(<<>>)
           => platform_calls[i].after = platform_calls[i].argument

\* Both merges were made of a document with list-shaped platform data that
\* has more than one platform.
C20_Witness ==
  /\ Len(platform_calls) = 2
  /\ platform_calls[1].argument = OrderedDict(<<>>)
  /\ platform_calls[2].before = OrderedDict(<<>>)
  /\ LET platform_data ==
           dict_get(plugin_importer_of(platform_calls[2].argument), "platformData", None)
     IN  /\ platform_data.kind = "list"
         /\ Len(platform_data.items) > 1
  /\ platform_calls[2].after = platform_calls[1].before

(***************************************************************************)
(* main: the command-line entry point.  A run is followed from its flags   *)
(* through the set-up of the directories, the GUID database, the project   *)
(* configuration, the calls of project.write, the copy of the additional   *)
(* files and the output zip file, to the value it returns or the exception *)
(* that leaves it.  Which file system operations fail is chosen at each    *)
(* step.                                                                   *)
(***************************************************************************)
MainFlags ==
  [output_unitypackage : BOOLEAN, output_upm : BOOLEAN, enforce_semver : BOOLEAN,
   output_zip : BOOLEAN]

NoDocuments ==
  CHOOSE d \in DocumentCases : d.readme = NoFilename /\ d.documentation = NoFilename

\* The configuration files of the runs: packages A and B with every list of
\* builds, and a configuration with two packages of the same name.
MainProjects ==
  {[packages |-> <<WritePackageA(include, NoFilename, "com.a", NoDocuments),
                   WritePackageB({}, <<AssetConfigurationJson({}, {"C/D.dll"},
                                                             DefaultMetadata)>>,
                                 NoFilename, export_upm)>>,
    builds |-> all_builds, version |-> "1.0.0"] :
     include \in BOOLEAN, export_upm \in {0, 1}, all_builds \in ExportBuilds}
    \cup
  {[packages |-> <<WritePackageA(FALSE, NoFilename, "com.a", NoDocuments),
                   [WritePackageB({}, <<AssetConfigurationJson({}, {"C/D.dll"},
                                                              DefaultMetadata)>>,
                                  NoFilename, 0) EXCEPT !.name = "A"]>>,
    builds |-> <<BuildJson("b1", {}, {})>>, version |-> "1.0.0"]}

InitMain ==
  /\ NoToolCall
  /\ NoMetadataCall
  /\ NoFindCall
  /\ project_json \in MainProjects
  /\ selected_sections = NewProjectFields.selected_sections
  /\ packages_by_name = NewProjectFields.packages_by_name
  /\ builds = NewProjectFields.builds
  /\ project_pc = "new"
  /\ set_result = "none"
  /\ guids_json = <<>>
  /\ plugin_version = NoVersion
  /\ guids_by_path = EmptyDatabase.guids_by_path
  /\ paths_by_guid = EmptyDatabase.paths_by_guid
  /\ guid_pc = "new"
  /\ ReadNotCalled
  /\ assets_dirs \in {AssetsDirs([absent |-> {}, metadata_file |-> guid], NoDocuments) :
                        guid \in {NoGuid, "g1", "g2"}}
  /\ write_call = [package |-> 0, for_upm |-> FALSE, package_filename |-> NoFilename]
  /\ write_frame = NoWriteFrame
  /\ temporary_dir = "none"
  /\ archives = {}
  /\ export_call = [for_upm |-> FALSE]
  /\ export_frame = [NoExportFrame EXCEPT !.pc = "no_project"]
  /\ package_writes = <<>>
  /\ main_call \in MainFlags
  /\ main_frame = [NoMainFrame EXCEPT !.pc = "start"]

\* logging.error(...) and `return 1`, through the finally clause that
\* removes the temporary directories.
main_returns_1(frame, error) ==
  [frame EXCEPT !.pc = "returned", !.temporary_dirs = {}, !.error = error,
                !.logged = TRUE, !.exit_code = 1]

\* An exception that no except clause of main names leaves main through
\* the finally clause.
main_raises(frame, error) ==
  [frame EXCEPT !.pc = "raised", !.temporary_dirs = {}, !.error = error]

\* What main does with an exception of project.write: it has an except
\* clause for ProjectConfigurationError only.
after_write_raised(frame, error) ==
  IF error.type = "ProjectConfigurationError" THEN main_returns_1(frame, error)
  ELSE main_raises(frame, error)

\* `return 0` through the finally clause.
main_returns_0(frame) ==
  [frame EXCEPT !.pc = "returned", !.temporary_dirs = {}, !.exit_code = 0]

\* How the set-up of the directories goes.
SetupOutcomes ==
  {"ok", "no_config_file", "mkdtemp_fails", "makedirs_fails", "not_a_directory",
   "assets_zip_fails", "asset_file_fails"}

\* main up to the GUID database: the check of FLAGS.config_file (whose
\* `print >> sys.stderr, main.__doc__` raises TypeError), the output
\* directory, the check of the flags output_upm and enforce_semver, the
\* assets zip files and the asset files.
Main_Setup ==
  /\ main_frame.pc = "start"
  /\ \E outcome \in SetupOutcomes, asset_file \in BOOLEAN :
       /\ outcome = "mkdtemp_fails" => main_call.output_zip
       /\ outcome \in {"makedirs_fails", "not_a_directory"} => ~main_call.output_zip
       /\ LET output == IF main_call.output_zip THEN {"output_dir"} ELSE {}
              made == [main_frame EXCEPT !.temporary_dirs = output]
          IN  main_frame' =
                CASE outcome = "no_config_file" ->
                       main_raises(main_frame, Raised("TypeError"))
                  [] outcome \in {"mkdtemp_fails", "makedirs_fails"} ->
                       main_raises(main_frame, Raised("OSError"))
                  [] outcome = "not_a_directory" ->
                       main_returns_1(main_frame, Raised("NotADirectory"))
                  [] OTHER ->
                       IF main_call.output_upm /\ ~main_call.enforce_semver
                       THEN main_returns_1(made, Raised("FlagsError"))
                       ELSE IF outcome = "assets_zip_fails"
                       THEN main_returns_1(made, Raised("OSError"))
                       ELSE IF outcome = "asset_file_fails"
                       THEN main_returns_1(
                              [made EXCEPT !.temporary_dirs = @ \cup {"asset_files"}],
                              Raised("OSError"))
                       ELSE [made EXCEPT
                               !.pc = "guids",
                               !.temporary_dirs =
                                  IF asset_file THEN @ \cup {"asset_files"} ELSE @]
  /\ UNCHANGED <<guid_vars, read_vars, project_vars, find_vars, assets_dirs,
                 write_vars, export_vars, metadata_vars, main_call, tool_vars>>

\* The GUID file, GuidDatabase(...) and
\* duplicate_guids_checker.check_for_duplicates().
Main_LoadGuids ==
  /\ main_frame.pc = "guids"
  /\ \E outcome \in {"ok", "read_fails", "duplicate_guids"},
        absent \in {guids.absent : guids \in GuidCases} :
       LET read == DatabaseWithout(EmptyDatabase, absent, 1)
           db == IF outcome = "duplicate_guids"
                 THEN add_guid(read, "C/D.dll", LookupGuidSeq[1])
                 ELSE read
       IN  /\ outcome = "duplicate_guids" => LookupPathSeq[1] \notin absent \cup {"C/D.dll"}
           /\ IF outcome = "read_fails"
              THEN /\ main_frame' = main_returns_1(main_frame, Raised("OSError"))
                   /\ UNCHANGED <<guids_by_path, paths_by_guid, guid_pc>>
              ELSE /\ guids_by_path' = db.guids_by_path
                   /\ paths_by_guid' = db.paths_by_guid
                   /\ guid_pc' = "ready"
                   /\ main_frame' =
                        IF conflicting_paths_by_guid(db.paths_by_guid) # {}
                        THEN main_returns_1(main_frame, Raised("DuplicateGuidsError"))
                        ELSE [main_frame EXCEPT !.pc = "project"]
  /\ UNCHANGED <<guids_json, plugin_version, read_vars, project_vars, find_vars,
                 assets_dirs, write_vars, export_vars, metadata_vars, main_call, tool_vars>>

\* project = ProjectConfiguration(read_json_file_into_ordered_dict(
\* FLAGS.config_file), enabled_sections, FLAGS.plugins_version)
Main_Project ==
  /\ main_frame.pc = "project"
  /\ \E outcome \in {"ok", "read_fails"}, enabled_sections \in {{}, {"x"}} :
       LET assigned == set_selected_sections(project_json, NewProjectFields,
                                             enabled_sections)
       IN  IF outcome = "read_fails"
           THEN /\ main_frame' = main_returns_1(main_frame, Raised("OSError"))
                /\ UNCHANGED <<selected_sections, packages_by_name, builds,
                               project_pc, set_result>>
           ELSE /\ selected_sections' = assigned.config.selected_sections
                /\ packages_by_name' = assigned.config.packages_by_name
                /\ builds' = assigned.config.builds
                /\ set_result' = IF assigned.raised THEN "ProjectConfigurationError"
                                 ELSE "returned"
                /\ project_pc' = IF assigned.raised THEN "failed" ELSE "ready"
                /\ main_frame' =
                     IF assigned.raised
                     THEN main_returns_1(main_frame, Raised("ProjectConfigurationError"))
                     ELSE [main_frame EXCEPT !.pc = "write_unitypackage"]
  /\ UNCHANGED <<project_json, guid_vars, read_vars, find_vars, assets_dirs,
                 write_vars, export_vars, metadata_vars, main_call, tool_vars>>

\* `if FLAGS.output_unitypackage:` and `if FLAGS.output_upm:`: the call of
\* project.write when the flag is set.
Main_CallWrite ==
  /\ main_frame.pc \in {"write_unitypackage", "write_upm"}
  /\ LET for_upm == main_frame.pc = "write_upm"
         wanted == IF for_upm THEN main_call.output_upm
                   ELSE main_call.output_unitypackage
     IN  IF wanted
         THEN /\ export_call' = [for_upm |-> for_upm]
              /\ export_frame' = NoExportFrame
              /\ main_frame' = [main_frame EXCEPT
                                  !.pc = IF for_upm THEN "upm" ELSE "unitypackage"]
         ELSE /\ main_frame' = [main_frame EXCEPT
                                  !.pc = IF for_upm THEN "zip" ELSE "write_upm"]
              /\ UNCHANGED <<export_call, export_frame>>
  /\ UNCHANGED <<guid_vars, read_vars, project_vars, find_vars, assets_dirs,
                 write_vars, package_writes, metadata_vars, main_call, tool_vars>>

\* The end of a call of project.write: its except clause, and after the
\* unitypackage export the copy of the additional files.
Main_AfterWrite ==
  /\ main_frame.pc \in {"unitypackage", "upm"}
  /\ export_frame.pc \in {"returned", "raised"}
  /\ \E copy_fails \in BOOLEAN :
       main_frame' =
         IF export_frame.pc = "raised"
         THEN after_write_raised(main_frame, export_frame.error)
         ELSE IF main_frame.pc = "upm" THEN [main_frame EXCEPT !.pc = "zip"]
         ELSE IF copy_fails THEN main_returns_1(main_frame, Raised("OSError"))
         ELSE [main_frame EXCEPT !.pc = "write_upm"]
  /\ UNCHANGED <<guid_vars, read_vars, project_vars, find_vars, assets_dirs,
                 write_vars, export_vars, metadata_vars, main_call, tool_vars>>

\* write_zipfile(FLAGS.output_zip, output_dir) when the flag is set, the
\* finally clause and `return 0`.
Main_Zip ==
  /\ main_frame.pc = "zip"
  /\ \E write_fails \in BOOLEAN :
       /\ write_fails => main_call.output_zip
       /\ main_frame' = IF write_fails
                        THEN main_returns_1(main_frame, Raised("OSError"))
                        ELSE main_returns_0(main_frame)
  /\ UNCHANGED <<guid_vars, read_vars, project_vars, find_vars, assets_dirs,
                 write_vars, export_vars, metadata_vars, main_call, tool_vars>>

NextMain ==
  \/ Main_Setup
  \/ Main_LoadGuids
  \/ Main_Project
  \/ Main_CallWrite
  \/ ProjectWrite_Begin
  \/ ProjectWrite_ApplyBuild
  \/ ProjectWrite_Package
  \/ ProjectWrite_End
  \/ Main_AfterWrite
  \/ Main_Zip

SpecMain == InitMain /\ [][NextMain]_vars

MainEnded == main_frame.pc \in {"returned", "raised"}

\* The exceptions C19 names: configuration errors, I/O errors, missing
\* GUIDs and duplicate GUIDs.
NamedErrors ==
  {"ProjectConfigurationError", "OSError", "MissingGuidsError", "DuplicateGuidsError"}

CaughtErrorsReturnOne ==
  MainEnded =>
    /\ (main_frame.pc = "returned" /\ main_frame.error # NoError)
         => main_frame.exit_code = 1 /\ main_frame.logged
    /\ main_frame.pc = "raised"
         => \/ export_frame.pc = "raised" /\ export_frame.error = main_frame.error
                 /\ main_frame.error.type # "ProjectConfigurationError"
            \/ export_frame.pc = "no_project"
                 /\ main_frame.error.type \in {"OSError", "TypeError"}
    /\ (main_frame.pc = "returned" /\ main_frame.exit_code = 0)
         => /\ main_frame.error = NoError
            /\ \A i \in 1..Len(package_writes) : package_writes[i].error = NoError
    /\ main_frame.temporary_dirs = {}

\* C19 for missing GUIDs alone: a run in which project.write raised
\* MissingGuidsError ends with main returning 1.
MissingGuidsReturnOne ==
  (MainEnded /\ main_frame.error.type = "MissingGuidsError")
    => main_frame.pc = "returned" /\ main_frame.exit_code = 1

(***************************************************************************)
(* Calls of merge_ordered_dicts with two documents that hold a value, or   *)
(* none, under the same key.                                               *)
(***************************************************************************)
MaxListItems == 2

\* What the "first" and the "second" of an item of a list hold.
FirstValues ==
  {OrderedDict(<<Item("Any", None)>>),
   OrderedDict(<<Item("Standalone", String("Linux"))>>),
   String("1"), Integer(1)}

SecondValues ==
  {OrderedDict(<<Item("enabled", Integer(enabled))>> \o settings) :
     enabled \in {0, 1},
     settings \in {<<>>,
                   <<Item("settings", OrderedDict(<<Item("CPU", String("x86"))>>))>>}}

PairItems ==
  {OrderedDict(<<Item("first", first), Item("second", second)>>) :
     first \in FirstValues, second \in SecondValues}

PairLists ==
  {List(items) : items \in UNION {[1..n -> PairItems] : n \in 0..MaxListItems}}

\* The values under the key: lists of "first" / "second" dictionaries, other
\* lists, a dictionary, a number and None.
MergeValues ==
  PairLists
    \cup {None, Integer(0), OrderedDict(<<Item("enabled", Integer(1))>>),
          List(<<String("x")>>),
          List(<<OrderedDict(<<Item("first", String("1"))>>)>>),
          List(<<OrderedDict(<<Item("first", String("1")),
                               Item("second", OrderedDict(<<>>)),
                               Item("third", None)>>)>>),
          List(<<OrderedDict(<<Item("data", OrderedDict(<<
                   Item("first", OrderedDict(<<Item("Any", None)>>)),
                   Item("second", OrderedDict(<<Item("enabled", Integer(1))>>))>>))>>)>>)}

ListDocument(value) == OrderedDict(<<Item("platformData", value)>>)

InitMergeLists ==
  /\ OnlyMetadata
  /\ metadata_asset = [filename |-> NoFilename, importer_metadata_original |-> None]
  /\ metadata_reads = <<>>
  /\ platform_metadata \in {ListDocument(value) : value \in MergeValues}
                             \cup {OrderedDict(<<>>)}
  /\ platform_filename = NoFilename
  /\ platform_calls = <<>>

\* merge_ordered_dicts(merge_into, merge_from)
MergeOrderedDicts ==
  /\ platform_metadata.kind = "dict"
  /\ platform_calls = <<>>
  /\ \E value \in MergeValues :
       \E returned \in {merge_ordered_dicts(platform_metadata, ListDocument(value))} :
         /\ platform_calls' =
              Append(platform_calls,
                     [method |-> "merge_ordered_dicts", argument |-> ListDocument(value),
                      before |-> platform_metadata, after |-> returned])
         /\ platform_metadata' = returned
  /\ UNCHANGED <<guid_vars, read_vars, project_vars, find_vars, assets_dirs,
                 write_vars, export_vars, main_vars, tool_vars, metadata_asset, metadata_reads,
                 platform_filename>>

NextMergeLists == MergeOrderedDicts

SpecMergeLists == InitMergeLists /\ [][NextMergeLists]_vars

\* A list all of whose items are dictionaries with the keys "first" and
\* "second" and no other.
pair_list(value) ==
  /\ value.kind = "list"
  /\ \A i \in 1..Len(value.items) :
       /\ value.items[i].kind = "dict"
       /\ {value.items[i].items[k].key : k \in 1..Len(value.items[i].items)}
            = {"first", "second"}

first_of(list, i) == dict_get(list.items[i], "first", None)

enabled_of(list, i) ==
  dict_get(dict_get(list.items[i], "second", None), "enabled", None)

\* `merged` is the base list merged with the override list item by item,
\* two items matching when Key gives their "first" the same value: the
\* items of the base list stay where they were, an item without a match
\* in the override list as it was; every key of the override list that the
\* base list does not have adds one item; and for every key of the
\* override list the first item of that key has the "enabled" of the last
\* item of the override list with the key.
MergedBy(Key(_), base, override, merged) ==
  LET keys(list) == {Key(first_of(list, i)) : i \in 1..Len(list.items)}
  IN  /\ merged.kind = "list"
      /\ Len(merged.items)
           = Len(base.items) + Cardinality(keys(override) \ keys(base))
      /\ \A k \in 1..Len(base.items) :
           /\ Key(first_of(merged, k)) = Key(first_of(base, k))
           /\ Key(first_of(base, k)) \notin keys(override)
                => merged.items[k] = base.items[k]
      /\ \A j \in 1..Len(override.items) :
           (\A later \in (j + 1)..Len(override.items) :
              Key(first_of(override, later)) # Key(first_of(override, j)))
             => \E k \in 1..Len(merged.items) :
                  /\ Key(first_of(merged, k)) = Key(first_of(override, j))
                  /\ \A before \in 1..(k - 1) :
                       Key(first_of(merged, before)) # Key(first_of(override, j))
                  /\ enabled_of(merged, k) = enabled_of(override, j)

\* No two items of the list have the same "first".
distinct_firsts(list) ==
  \A i, j \in 1..Len(list.items) : first_of(list, i) = first_of(list, j) => i = j

ValueUnder(document) == dict_get(document, "platformData", None)

MaxArchives == 2

\* The directory archived: two directories and a file; sorted() orders the
\* names as StagingEntrySeq does.
StagingDirectories == {"a", "d"}
StagingFiles == {"c.txt"}
StagingEntrySeq == <<"a", "c.txt", "d">>
ModificationTimes == {10, 20}
Timestamps == {-1, 0, 5}
ArchiveFilenames == {"out/A.unitypackage", "out/B.unitypackage"}

\* The orders os.walk can give the entries in: the directories of a
\* directory in any order, then its files.
WalkOrders ==
  {walk \in {<<first, second, "c.txt">> :
               first \in StagingDirectories, second \in StagingDirectories} :
     walk[1] # walk[2]}

\* The mutation of create_archive that archives the entries in the order
\* os.walk gave them.
unsorted(input_filenames) == input_filenames

\* sorted([os.path.normpath(filename) for filename in input_filenames])
sorted_filenames(input_filenames) ==
  SelectSeq(StagingEntrySeq,
            LAMBDA filename :
              \E i \in 1..Len(input_filenames) : input_filenames[i] = filename)

\* os.path.splitext(archive_filename)[0] + ".tar.gz" as GzipFile writes it
\* in the header: the base name without ".gz".
gzip_header_name(archive_filename) ==
  IF archive_filename = "out/A.unitypackage" THEN "A.tar" ELSE "B.tar"

\* The tar command: GNU tar on Linux with --mtime (when FLAGS.timestamp is
\* not 0), --owner and --group; BSD tar on the other systems, after
\* os.utime gave every entry FLAGS.timestamp (when it is not 0), with the
\* owners the entries have.  GZIP=-n keeps the time out of the header that
\* gzip writes for GNU tar; the tar of macOS compresses by itself and
\* writes the time of the call.
tar_archive(flags, directory, input_filenames, clock) ==
  LET gnu_tar_available == flags.system = "Linux"
  IN  [gzip_mtime |-> IF gnu_tar_available THEN 0 ELSE clock,
       gzip_name |-> "",
       members |->
         [i \in 1..Len(input_filenames) |->
            [name |-> input_filenames[i],
             mtime |-> IF flags.timestamp # 0 THEN flags.timestamp
                       ELSE directory[input_filenames[i]],
             owner |-> IF gnu_tar_available THEN "FLAGS.owner" ELSE "st_uid"]]]

\* The tarfile module with reproducible_tarinfo, inside gzip.GzipFile.
tarfile_archive(archive_filename, directory, input_filenames, timestamp, clock) ==
  [gzip_mtime |-> IF timestamp >= 0 THEN timestamp ELSE clock,
   gzip_name |-> gzip_header_name(archive_filename),
   members |->
     [i \in 1..Len(input_filenames) |->
        [name |-> input_filenames[i],
         mtime |-> IF timestamp >= 0 THEN timestamp
                   ELSE directory[input_filenames[i]],
         owner |-> "FLAGS.owner"]]]

\* The modification times of the entries after create_archive: os.utime
\* sets them before BSD tar runs.
directory_after(flags, directory) ==
  IF /\ flags.system = "Darwin" /\ flags.use_tar /\ flags.timestamp # 0
  THEN [filename \in DOMAIN directory |-> flags.timestamp]
  ELSE directory

\* create_archive(archive_filename, input_directory, timestamp): the
\* archive written.
create_archive(archive_filename, flags, directory, walk, timestamp, clock) ==
  LET input_filenames == sorted_filenames(walk)
      tar_available == flags.system \in {"Linux", "Darwin"}
  IN  IF tar_available /\ flags.use_tar
      THEN tar_archive(flags, directory_after(flags, directory), input_filenames,
                       clock)
      ELSE tarfile_archive(archive_filename, directory, input_filenames, timestamp,
                           clock)

\* export_unity_package.py is not running.
NoExporter ==
  /\ NoMainCall
  /\ NoGuidDatabase
  /\ NoProject
  /\ NoFindCall
  /\ NoWriteCall
  /\ NoMetadataCall
  /\ assets_dirs = NoMetadataFiles

InitArchive ==
  /\ NoExporter
  /\ name_map_calls = <<>>
  /\ NoGenGuidsCall
  /\ NoLauncher
  /\ archive_flags \in [system : {"Linux", "Darwin", "Windows"}, use_tar : BOOLEAN,
                        timestamp : Timestamps]
  /\ staging_dir \in [StagingDirectories \cup StagingFiles -> ModificationTimes]
  /\ archive_calls = <<>>

\* The modification times of the entries change.
TouchEntries ==
  /\ Len(archive_calls) < MaxArchives
  /\ staging_dir' \in [DOMAIN staging_dir -> ModificationTimes] \ {staging_dir}
  /\ UNCHANGED <<guid_vars, read_vars, project_vars, find_vars, assets_dirs,
                 write_vars, export_vars, metadata_vars, main_vars, gen_vars,
                 launcher_vars, name_map_calls, archive_flags, archive_calls>>

\* PackageConfiguration.create_archive(unity_package_file, staging_dir,
\* timestamp), called with FLAGS.timestamp as main hands it on, each call a
\* second after the one before.
CreateArchive ==
  /\ Len(archive_calls) < MaxArchives
  /\ \E archive_filename \in ArchiveFilenames, walk \in WalkOrders :
       LET clock == 100 + Len(archive_calls)
       IN  /\ archive_calls' =
                Append(archive_calls,
                       [archive_filename |-> archive_filename,
                        walk |-> walk,
                        mtimes |-> staging_dir,
                        archive |-> create_archive(archive_filename, archive_flags,
                                                   staging_dir, walk,
                                                   archive_flags.timestamp, clock)])
           /\ staging_dir' = directory_after(archive_flags, staging_dir)
  /\ UNCHANGED <<guid_vars, read_vars, project_vars, find_vars, assets_dirs,
                 write_vars, export_vars, metadata_vars, main_vars, gen_vars,
                 launcher_vars, name_map_calls, archive_flags>>

NextArchive ==
  \/ TouchEntries
  \/ CreateArchive

SpecArchive == InitArchive /\ [][NextArchive]_vars

\* C22: with a fixed timestamp configured (a timestamp flag above 0), two
\* calls of create_archive for the same directory and archive file name
\* write the same archive, whatever the modification times of the entries
\* and the order os.walk gave them in at each call.
C22_ArchivesIdentical ==
  archive_flags.timestamp > 0 =>
    \A i, j \in 1..Len(archive_calls) :
      archive_calls[i].archive_filename = archive_calls[j].archive_filename
        => archive_calls[i].archive = archive_calls[j].archive

\* C22 where the archive is not written by the tar command of macOS.
C22_ArchivesIdenticalButMacTar ==
  (archive_flags.timestamp > 0
     /\ ~(archive_flags.system = "Darwin" /\ archive_flags.use_tar)) =>
    \A i, j \in 1..Len(archive_calls) :
      archive_calls[i].archive_filename = archive_calls[j].archive_filename
        => archive_calls[i].archive = archive_calls[j].archive

\* Two archives were written by GNU tar with a fixed timestamp, under the
\* same name, from entries that os.walk gave in different orders and whose
\* modification times had changed in between.
C22_Witness ==
  /\ Len(archive_calls) = 2
  /\ archive_flags.timestamp > 0
  /\ archive_flags.system = "Linux" /\ archive_flags.use_tar
  /\ archive_calls[1].archive_filename = archive_calls[2].archive_filename
  /\ archive_calls[1].walk # archive_calls[2].walk
  /\ \A filename \in DOMAIN staging_dir :
       archive_calls[1].mtimes[filename] # archive_calls[2].mtimes[filename]
  /\ archive_calls[1].archive = archive_calls[2].archive

\* Without a timestamp (the flag is 0) GNU tar archives the modification
\* times the entries have, and the tarfile module writes the name of the
\* archive file into the archive.
C22_WitnessOfDependence ==
  /\ Len(archive_calls) = 2
  /\ archive_calls[1].archive # archive_calls[2].archive
  /\ \/ archive_flags.timestamp = 0 /\ archive_flags.system = "Linux"
     \/ archive_calls[1].archive_filename # archive_calls[2].archive_filename

(***************************************************************************)
(* Calls of BuildConfiguration.create_package_name_map on a build          *)
(* configuration with up to MaxReplacements package name replacements.     *)
(***************************************************************************)
MaxReplacements == 2

NameMapReplacements ==
  {PackageNameReplacement("^A$", "B"), PackageNameReplacement("^B$", "C"),
   PackageNameReplacement("^A$", "A2"), PackageNameReplacement("^C$", "B")}

NameMapBuilds ==
  {[BuildJson("b1", {}, {}) EXCEPT !.package_name_replacements = replacements] :
     replacements \in UNION {[1..n -> NameMapReplacements] : n \in 0..MaxReplacements}}

\* The dictionaries handed to create_package_name_map: package names with
\* the file name to replace, the name itself or None.
NameSeq == <<"A", "B", "C">>
PackageNamesMaps ==
  {[i \in 1..Len(SelectSeq(NameSeq, LAMBDA name : name \in DOMAIN filenames)) |->
      LET name == SelectSeq(NameSeq, LAMBDA n : n \in DOMAIN filenames)[i]
      IN  [package_name |-> name,
           package_filename |-> IF filenames[name] THEN name ELSE NoFilename]] :
     filenames \in UNION {[names -> BOOLEAN] : names \in SUBSET {"A", "B", "C"}}}

InitNameMap ==
  /\ NoExporter
  /\ NoArchiveCall
  /\ NoGenGuidsCall
  /\ NoLauncher
  /\ name_map_calls = <<>>

\* build.create_package_name_map(package_names_map)
CreatePackageNameMap ==
  /\ name_map_calls = <<>>
  /\ \E build \in NameMapBuilds, package_names_map \in PackageNamesMaps :
       name_map_calls' =
         Append(name_map_calls,
                [build |-> build, package_names_map |-> package_names_map,
                 created |-> create_package_name_map(build, package_names_map)])
  /\ UNCHANGED <<guid_vars, read_vars, project_vars, find_vars, assets_dirs,
                 write_vars, export_vars, metadata_vars, main_vars, archive_vars,
                 gen_vars, launcher_vars>>

NextNameMap == CreatePackageNameMap

SpecNameMap == InitNameMap /\ [][NextNameMap]_vars

\* The names a build gives the file names of a dictionary.
replaced_names(call) ==
  [i \in 1..Len(call.package_names_map) |->
     apply_package_name_replacements(call.build.package_name_replacements, 1,
                                     call.package_names_map[i].package_filename)]

\* Two package names of the dictionary get the same name.
same_target(call) ==
  \E i, j \in 1..Len(call.package_names_map) :
    i # j /\ replaced_names(call)[i] = replaced_names(call)[j]

all_filenames_given(call) ==
  \A i \in 1..Len(call.package_names_map) :
    call.package_names_map[i].package_filename # NoFilename

\* C23: create_package_name_map raises ProjectConfigurationError if the
\* replacements of the build configuration give several package names the
\* same target name, and otherwise returns the replaced name for each
\* package name (stated for dictionaries in which every package has a file
\* name).
C23_SameTargetRaises ==
  \A c \in 1..Len(name_map_calls) :
    LET call == name_map_calls[c]
    IN  all_filenames_given(call) =>
          IF same_target(call)
          THEN call.created.error = Raised("ProjectConfigurationError")
          ELSE /\ call.created.error = NoError
               /\ \A i \in 1..Len(call.package_names_map) :
                    call.created.package_name_map[i]
                      = [package_name |-> call.package_names_map[i].package_name,
                         package_filename |-> replaced_names(call)[i]]

\* What create_package_name_map does: it returns the replaced name for
\* each package name whether or not two of them get the same name, and
\* raises only TypeError, when replacements are applied to None.
NameMapIgnoresSameTarget ==
  \A c \in 1..Len(name_map_calls) :
    LET call == name_map_calls[c]
    IN  /\ call.created.error # Raised("ProjectConfigurationError")
        /\ all_filenames_given(call) =>
             /\ call.created.error = NoError
             /\ \A i \in 1..Len(call.package_names_map) :
                  call.created.package_name_map[i].package_filename
                    = replaced_names(call)[i]

(***************************************************************************)
(* gen_guids.  guid_data is a function from the versions it has as keys to *)
(* maps [Paths -> GUID], NoGuid standing for a path a version does not     *)
(* have.  uuid.uuid4().hex gives a GUID that no entry has.                 *)
(***************************************************************************)
MaxGuidDataEntries == 4
MaxGenCalls == 1

NewGuids == {"g3", "g4"}

NoGuids == [path \in Paths |-> NoGuid]

\* The dictionaries read from a GUID file: up to MaxGuidDataEntries paths
\* with a GUID, in the versions that have one.
GuidDataCells == VersionStrings \X Paths
GuidData ==
  {[version \in {cell[1] : cell \in DOMAIN entries} |->
      [path \in Paths |-> IF <<version, path>> \in DOMAIN entries
                          THEN entries[<<version, path>>] ELSE NoGuid]] :
     entries \in UNION {[cells -> Guids] :
                          cells \in {c \in SUBSET GuidDataCells :
                                       Cardinality(c) <= MaxGuidDataEntries}}}

\* sorted(guid_data, key=distutils.version.LooseVersion)
sorted_versions_of(data) ==
  LET newest_first == SortedVersionsReverse(DOMAIN data)
  IN  [i \in 1..Len(newest_first) |-> newest_first[Len(newest_first) + 1 - i]]

\* range(version_index - 1, 0, -1) for the version at place i of
\* sorted_versions, as places counted from 1: the versions before it but
\* the first.
previous_version_indices(i) == 2..(i - 1)

\* remove_duplicate_guids(guid_data), from the version at place i on: the
\* dictionary after the call.
RECURSIVE remove_duplicate_guids_from(_, _, _)
remove_duplicate_guids_from(data, sorted_versions, i) ==
  IF i > Len(sorted_versions) THEN data
  ELSE LET version == sorted_versions[i]
           current_guids_by_filename == data[version]
           removed ==
             [filename \in Paths |->
                IF /\ current_guids_by_filename[filename] # NoGuid
                   /\ \E previous \in previous_version_indices(i) :
                        data[sorted_versions[previous]][filename]
                          = current_guids_by_filename[filename]
                THEN NoGuid
                ELSE current_guids_by_filename[filename]]
       IN  remove_duplicate_guids_from([data EXCEPT ![version] = removed],
                                       sorted_versions, i + 1)

remove_duplicate_guids(data) ==
  remove_duplicate_guids_from(data, sorted_versions_of(data), 1)

\* get_all_asset_paths(guid_data, version): for each path the GUID of the
\* newest version up to `version` that has the path.
get_all_asset_paths(data, version) ==
  LET versions == SelectSeq(SortedVersionsReverse(DOMAIN data),
                            LAMBDA current_version :
                              ~VersionLess(version, current_version))
  IN  [asset_path \in Paths |->
         IF \E i \in 1..Len(versions) : data[versions[i]][asset_path] # NoGuid
         THEN LET i == CHOOSE i \in 1..Len(versions) :
                         /\ data[versions[i]][asset_path] # NoGuid
                         /\ \A k \in 1..(i - 1) : data[versions[k]][asset_path] = NoGuid
              IN  data[versions[i]][asset_path]
         ELSE NoGuid]

\* get_guids_by_asset_paths_for_version(guid_data, version): guid_data
\* after the call, which has the version as a key.
get_guids_by_asset_paths_for_version(data, version) ==
  [v \in DOMAIN data \cup {version} |-> IF v \in DOMAIN data THEN data[v] ELSE NoGuids]

\* generate_guids_for_asset_paths(guid_data, version, asset_paths,
\* generate_new_guids): guid_data after the call; new_guid[asset_path] is
\* what uuid.uuid4().hex gave for the path.
generate_guids_for_asset_paths(data, version, asset_paths, generate_new_guids, new_guid) ==
  LET all_guids_by_asset_paths == get_all_asset_paths(data, version)
      with_version == get_guids_by_asset_paths_for_version(data, version)
      guids_by_asset_paths == with_version[version]
  IN  [with_version EXCEPT
         ![version] =
           [asset_path \in Paths |->
              IF asset_path \notin asset_paths THEN guids_by_asset_paths[asset_path]
              ELSE IF generate_new_guids THEN new_guid[asset_path]
              ELSE IF all_guids_by_asset_paths[asset_path] = NoGuid
              THEN IF guids_by_asset_paths[asset_path] # NoGuid
                   THEN guids_by_asset_paths[asset_path]
                   ELSE new_guid[asset_path]
              ELSE guids_by_asset_paths[asset_path]]]

InitGenGuids ==
  /\ NoExporter
  /\ NoArchiveCall
  /\ NoLauncher
  /\ name_map_calls = <<>>
  /\ guid_data \in GuidData
  /\ gen_calls = <<>>

\* remove_duplicate_guids(guid_data)
RemoveDuplicateGuids ==
  /\ Len(gen_calls) < MaxGenCalls
  /\ \E after \in {remove_duplicate_guids(guid_data)} :
       /\ guid_data' = after
       /\ gen_calls' = Append(gen_calls,
                              [method |-> "remove_duplicate_guids",
                               before |-> guid_data, after |-> after])
  /\ UNCHANGED <<guid_vars, read_vars, project_vars, find_vars, assets_dirs,
                 write_vars, export_vars, metadata_vars, main_vars, archive_vars,
                 launcher_vars, name_map_calls>>

\* generate_guids_for_asset_paths(guid_data, version, asset_paths,
\* generate_new_guids)
GenerateGuidsForAssetPaths ==
  /\ Len(gen_calls) < MaxGenCalls
  /\ \E version \in VersionStrings, asset_paths \in SUBSET Paths \ {{}},
        generate_new_guids \in BOOLEAN,
        new_guid \in {f \in [Paths -> NewGuids] :
                        \A p, q \in Paths : f[p] = f[q] => p = q} :
       \E after \in {generate_guids_for_asset_paths(guid_data, version, asset_paths,
                                                    generate_new_guids, new_guid)} :
         /\ guid_data' = after
         /\ gen_calls' = Append(gen_calls,
                                [method |-> "generate_guids_for_asset_paths",
                                 version |-> version, asset_paths |-> asset_paths,
                                 generate_new_guids |-> generate_new_guids,
                                 before |-> guid_data, after |-> after])
  /\ UNCHANGED <<guid_vars, read_vars, project_vars, find_vars, assets_dirs,
                 write_vars, export_vars, metadata_vars, main_vars, archive_vars,
                 launcher_vars, name_map_calls>>

NextGenGuids ==
  \/ RemoveDuplicateGuids
  \/ GenerateGuidsForAssetPaths

SpecGenGuids == InitGenGuids /\ [][NextGenGuids]_vars

RemoveCalls == {i \in 1..Len(gen_calls) : gen_calls[i].method = "remove_duplicate_guids"}

\* The version has the path with the GUID that a version before it has the
\* path with, the versions before it being those of `among`.
duplicates_previous(data, version, path, among) ==
  /\ data[version][path] # NoGuid
  /\ \E previous \in among :
       /\ VersionLess(previous, version)
       /\ data[previous][path] = data[version][path]

\* C24: after remove_duplicate_guids no version's map has a path with a
\* GUID that a prior version has the same path with.
C24_NoDuplicateOfPriorVersion ==
  \A i \in RemoveCalls :
    LET after == gen_calls[i].after
    IN  \A version \in DOMAIN after, path \in Paths :
          ~duplicates_previous(after, version, path, DOMAIN after)

\* C24 for the prior versions the loop reads: all but the oldest version of
\* the dictionary.
NoDuplicateOfPriorVersionButOldest ==
  \A i \in RemoveCalls :
    LET after == gen_calls[i].after
        oldest == {v \in DOMAIN after : \A w \in DOMAIN after : ~VersionLess(w, v)}
    IN  \A version \in DOMAIN after, path \in Paths :
          ~duplicates_previous(after, version, path, DOMAIN after \ oldest)

\* C28: for every version of the dictionary get_all_asset_paths returns
\* after remove_duplicate_guids what it returned before it.
C28_RemoveKeepsResolution ==
  \A i \in RemoveCalls :
    \A version \in DOMAIN gen_calls[i].before :
      get_all_asset_paths(gen_calls[i].after, version)
        = get_all_asset_paths(gen_calls[i].before, version)

GenerateCalls ==
  {i \in 1..Len(gen_calls) : gen_calls[i].method = "generate_guids_for_asset_paths"}

has_guid(data, version, path) ==
  version \in DOMAIN data /\ data[version][path] # NoGuid

\* Every entry the dictionary had is in it unchanged.
entries_kept(call) ==
  \A version \in DOMAIN call.before, path \in Paths :
    has_guid(call.before, version, path)
      => /\ version \in DOMAIN call.after
         /\ call.after[version][path] = call.before[version][path]

\* C25: with generate_new_guids disabled generate_guids_for_asset_paths
\* adds a GUID only for a path of asset_paths that no version of the
\* dictionary has, and leaves every entry the dictionary had unchanged.
C25_GeneratesOnlyForUnreferencedPaths ==
  \A i \in GenerateCalls :
    LET call == gen_calls[i]
    IN  ~call.generate_new_guids =>
          /\ entries_kept(call)
          /\ \A version \in DOMAIN call.after, path \in Paths :
               (has_guid(call.after, version, path)
                  /\ ~has_guid(call.before, version, path))
                 => /\ version = call.version
                    /\ path \in call.asset_paths
                    /\ \A other \in DOMAIN call.before :
                         ~has_guid(call.before, other, path)

\* C25 with "no version" read as the code reads it: no version up to the
\* version the GUIDs are generated for.
GeneratesOnlyForPathsUnreferencedSoFar ==
  \A i \in GenerateCalls :
    LET call == gen_calls[i]
    IN  ~call.generate_new_guids =>
          /\ entries_kept(call)
          /\ \A version \in DOMAIN call.after, path \in Paths :
               (has_guid(call.after, version, path)
                  /\ ~has_guid(call.before, version, path))
                 => /\ version = call.version
                    /\ path \in call.asset_paths
                    /\ call.after[version][path] \in NewGuids
                    /\ \A other \in DOMAIN call.before :
                         ~VersionLess(call.version, other)
                           => ~has_guid(call.before, other, path)
          /\ \A path \in call.asset_paths :
               (\A other \in DOMAIN call.before :
                  ~VersionLess(call.version, other)
                    => ~has_guid(call.before, other, path))
                 => has_guid(call.after, call.version, path)

(***************************************************************************)
(* webrequest_launcher.  main runs socketserver's serve_forever loop in    *)
(* the main thread; the loop's service_actions() starts the TestRunner     *)
(* thread, which runs the test subprocess and then calls shutdown().       *)
(* launcher.arguments is what sys.argv[1:] is: "none" (empty), "missing"   *)
(* (no such executable) or "test" (a program that starts).                 *)
(***************************************************************************)
MaxRequests == 2

SubprocessArguments == {"none", "missing", "test"}
ExitCodes == {0, 1, 7}

InitLauncher ==
  /\ NoExporter
  /\ NoArchiveCall
  /\ NoGenGuidsCall
  /\ name_map_calls = <<>>
  /\ NoLauncher

launcher_frame ==
  <<guid_vars, read_vars, project_vars, find_vars, assets_dirs, write_vars,
    export_vars, metadata_vars, main_vars, archive_vars, gen_vars, name_map_calls>>

\* main up to the call of serve_forever, and serve_forever up to its loop:
\* the server and the runner are constructed, the runner is registered as
\* the service_actions callable and __is_shut_down is cleared.
Main_ServeForever ==
  /\ launcher.pc = "not_called"
  /\ \E subprocess_arguments \in SubprocessArguments :
       launcher' = [launcher EXCEPT !.pc = "serve_forever",
                                    !.arguments = subprocess_arguments]
  /\ runner' = [runner EXCEPT !.pc = "created"]
  /\ httpd' = [httpd EXCEPT !.pc = "while", !.service_actions_callable = TRUE,
                            !.is_shut_down = FALSE]
  /\ UNCHANGED launcher_frame

\* while not self.__shutdown_request:
Serve_While ==
  /\ httpd.pc = "while"
  /\ httpd' = [httpd EXCEPT !.pc = IF httpd.shutdown_request THEN "finally" ELSE "select"]
  /\ UNCHANGED <<runner, launcher, launcher_frame>>

\* ready = selector.select(poll_interval): a request that is pending is
\* ready, and without one the poll times out.
Serve_Select ==
  /\ httpd.pc = "select"
  /\ httpd' = [httpd EXCEPT !.pc = "after_select", !.ready = (httpd.pending > 0)]
  /\ UNCHANGED <<runner, launcher, launcher_frame>>

\* if self.__shutdown_request: break; if ready: self._handle_request_noblock()
Serve_HandleRequest ==
  /\ httpd.pc = "after_select"
  /\ httpd' = IF httpd.shutdown_request THEN [httpd EXCEPT !.pc = "finally"]
              ELSE IF httpd.ready
              THEN [httpd EXCEPT !.pc = "service_actions",
                                 !.pending = httpd.pending - 1,
                                 !.requests = httpd.requests + 1]
              ELSE [httpd EXCEPT !.pc = "service_actions"]
  /\ UNCHANGED <<runner, launcher, launcher_frame>>

\* TestServer.service_actions: the callable, TestRunner.__call__, starts
\* the thread, and is then forgotten.
Serve_ServiceActions ==
  /\ httpd.pc = "service_actions"
  /\ IF httpd.service_actions_callable
     THEN /\ runner' = [runner EXCEPT !.pc = "run", !.starts = runner.starts + 1]
          /\ httpd' = [httpd EXCEPT !.pc = "while", !.service_actions_callable = FALSE]
     ELSE /\ httpd' = [httpd EXCEPT !.pc = "while"]
          /\ UNCHANGED runner
  /\ UNCHANGED <<launcher, launcher_frame>>

\* finally: self.__shutdown_request = False; self.__is_shut_down.set()
Serve_Finally ==
  /\ httpd.pc = "finally"
  /\ httpd' = [httpd EXCEPT !.pc = "returned", !.shutdown_request = FALSE,
                            !.is_shut_down = TRUE]
  /\ UNCHANGED <<runner, launcher, launcher_frame>>

\* main after serve_forever: the server is closed and
\* runner.process_result returned.
Main_Return ==
  /\ launcher.pc = "serve_forever"
  /\ httpd.pc = "returned"
  /\ httpd' = [httpd EXCEPT !.pc = "closed"]
  /\ launcher' = [launcher EXCEPT !.pc = "returned", !.returned = runner.process_result]
  /\ UNCHANGED <<runner, launcher_frame>>

\* TestRunner.run: subprocess.Popen(self.test_args), which raises for no
\* arguments (IndexError) and for a program that is not there
\* (FileNotFoundError); the exception ends the thread.
Runner_Popen ==
  /\ runner.pc = "run"
  /\ runner' = IF launcher.arguments = "test"
               THEN [runner EXCEPT !.pc = "wait", !.processes = runner.processes + 1,
                                   !.process = "running"]
               ELSE [runner EXCEPT !.pc = "raised"]
  /\ UNCHANGED <<httpd, launcher, launcher_frame>>

\* The test sends a request to the server.
Process_Request ==
  /\ runner.process = "running"
  /\ httpd.pending + httpd.requests < MaxRequests
  /\ httpd' = [httpd EXCEPT !.pending = httpd.pending + 1]
  /\ UNCHANGED <<runner, launcher, launcher_frame>>

\* The test exits.
Process_Exit ==
  /\ runner.process = "running"
  /\ \E returncode \in ExitCodes :
       runner' = [runner EXCEPT !.process = "exited", !.returncode = returncode]
  /\ UNCHANGED <<httpd, launcher, launcher_frame>>

\* proc.wait(); self.process_result = proc.returncode
Runner_Wait ==
  /\ runner.pc = "wait"
  /\ runner.process = "exited"
  /\ runner' = [runner EXCEPT !.pc = "shutdown", !.process_result = runner.returncode]
  /\ UNCHANGED <<httpd, launcher, launcher_frame>>

\* self.tcp_server.shutdown(): self.__shutdown_request = True
Runner_Shutdown ==
  /\ runner.pc = "shutdown"
  /\ httpd' = [httpd EXCEPT !.shutdown_request = TRUE]
  /\ runner' = [runner EXCEPT !.pc = "is_shut_down_wait"]
  /\ UNCHANGED <<launcher, launcher_frame>>

\* shutdown(): self.__is_shut_down.wait(), and the end of run
Runner_Done ==
  /\ runner.pc = "is_shut_down_wait"
  /\ httpd.is_shut_down
  /\ runner' = [runner EXCEPT !.pc = "done"]
  /\ UNCHANGED <<httpd, launcher, launcher_frame>>

MainThread ==
  \/ Main_ServeForever
  \/ Serve_While
  \/ Serve_Select
  \/ Serve_HandleRequest
  \/ Serve_ServiceActions
  \/ Serve_Finally
  \/ Main_Return

RunnerThread ==
  \/ Runner_Popen
  \/ Runner_Wait
  \/ Runner_Shutdown
  \/ Runner_Done

NextLauncher ==
  \/ Main_ServeForever
  \/ Serve_While
  \/ Serve_Select
  \/ Serve_HandleRequest
  \/ Serve_ServiceActions
  \/ Serve_Finally
  \/ Main_Return
  \/ Runner_Popen
  \/ Runner_Wait
  \/ Runner_Shutdown
  \/ Runner_Done
  \/ Process_Request
  \/ Process_Exit

\* Both threads are scheduled while they can take a step, and a test that
\* runs comes to its end.
SpecLauncher ==
  /\ InitLauncher
  /\ [][NextLauncher]_vars
  /\ WF_vars(MainThread)
  /\ WF_vars(RunnerThread)
  /\ WF_vars(Process_Exit)

\* The test is started at most once, and the thread that starts it.
StartedAtMostOnce == runner.starts <= 1 /\ runner.processes <= 1

\* shutdown() is called only after the test has exited.
ShutDownOnlyAfterExit ==
  (httpd.shutdown_request \/ httpd.pc \in {"finally", "returned", "closed"})
    => runner.process = "exited"

\* What main returns is the exit code of the test.
ReturnsExitCode ==
  launcher.pc = "returned"
    => /\ runner.processes = 1
       /\ launcher.returned = runner.returncode
       /\ launcher.returned \in ExitCodes

\* Once shutdown() has been called serve_forever returns, and main and
\* the runner's thread end.
ShutdownEndsServeForever ==
  httpd.shutdown_request ~> (launcher.pc = "returned" /\ runner.pc = "done")

\* C26: under every interleaving of the server loop and the runner's
\* thread the test is started exactly once, the server is shut down only
\* after the test has exited, serve_forever returns and main returns the
\* exit code of the test.
C26_RunsTestOnceAndReturnsItsExitCode ==
  /\ []StartedAtMostOnce
  /\ []ShutDownOnlyAfterExit
  /\ <>(/\ launcher.pc = "returned"
        /\ runner.processes = 1
        /\ launcher.returned = runner.returncode)

\* C26 for a test that subprocess.Popen starts.
StartedTestRunsOnceAndReturnsItsExitCode ==
  /\ []StartedAtMostOnce
  /\ []ShutDownOnlyAfterExit
  /\ []ReturnsExitCode
  /\ (launcher.arguments = "test" /\ launcher.pc = "serve_forever")
       ~> (launcher.pc = "returned" /\ runner.processes = 1)

\* When subprocess.Popen raises, shutdown() is never called and
\* serve_forever never returns.
FailedPopenServesForever ==
  [](runner.pc = "raised" => [](launcher.pc = "serve_forever" /\ ~httpd.shutdown_request))

\* The values of packages_by_name and of builds: the places of the enabled
\* packages and builds in the project's lists.
EnabledPlaces == {<<>>, <<1>>, <<2>>, <<1, 2>>}

\* The call of project.write has ended with the fields it was called with.
selection_restored(sections, packages, enabled_builds) ==
  ExportEnded => /\ selected_sections = sections
                 /\ packages_by_name = packages
                 /\ builds = enabled_builds

\* C27: however project.write ends (return, ProjectConfigurationError,
\* MissingGuidsError), selected_sections, packages_by_name and builds are
\* what they were when it was called.
C27_WriteRestoresSelection ==
  \A sections \in SUBSET {"x"}, packages \in EnabledPlaces,
     enabled_builds \in EnabledPlaces :
    (/\ export_frame.pc = "not_called"
     /\ selected_sections = sections
     /\ packages_by_name = packages
     /\ builds = enabled_builds)
      => []selection_restored(sections, packages, enabled_builds)

\* A call that switched to the sections of the second build, wrote a
\* package for it and returned with no section selected.
C27_Witness ==
  /\ export_frame.pc = "returned"
  /\ \E i \in 1..Len(package_writes) : package_writes[i].build = 2
  /\ "x" \in project_json.builds[2].enabled_sections
  /\ selected_sections = {}
  /\ export_frame.selected_sections = {}

\* A call that switched sections and ended with an exception.
C27_WitnessRaised ==
  /\ export_frame.pc = "raised"
  /\ export_frame.error.type \in {"ProjectConfigurationError", "MissingGuidsError"}
  /\ \E i \in 1..Len(package_writes) : package_writes[i].build = 2
  /\ "x" \in project_json.builds[2].enabled_sections
  /\ selected_sections = {}

\* Two distinct paths have the same GUID in GuidDatabase._guids_by_path.
two_paths_resolve_to_same_guid ==
  \E p, q \in LookupPaths :
    /\ p # q
    /\ guids_by_path[p] # NoGuid
    /\ guids_by_path[p] = guids_by_path[q]

\* C30: read_guids_from_assets ends with the DuplicateGuidsError of
\* check_for_duplicates only if two distinct paths have the same GUID in
\* the database's map from paths to GUIDs.
C30_DuplicateErrorOnlyForSharedGuid ==
  read_result = "DuplicateGuidsError" => two_paths_resolve_to_same_guid

\* What check_for_duplicates does test: a GUID that has been registered for
\* two distinct paths, whether or not both still have it.
DuplicateErrorIffGuidRegisteredTwice ==
  read_result \in {"DuplicateGuidsError", "returned"} =>
    (read_result = "DuplicateGuidsError"
       <=> \E g \in AllGuids : Cardinality(paths_by_guid[g]) > 1)

(***************************************************************************)
(* One call of project.write on a project whose packages A and B import    *)
(* the same file, each import group with or without a "guid" in its        *)
(* override_metadata.                                                      *)
(***************************************************************************)
\* An import group of C/D.dll with the GUID of its override_metadata.
OverridingImport(guid) ==
  [sections |-> {}, paths |-> {"C/D.dll"}, importer_metadata |-> DefaultMetadata,
   override_metadata |-> [guid |-> guid]]

InitExportRun ==
  /\ NoMetadataCall
  /\ NoMainCall
  /\ NoToolCall
  /\ NoFindCall
  /\ \E guid_of_a \in {NoGuid, "g1"}, guid_of_b \in {NoGuid, "g1", "g2"},
        export_upm \in {0, 1}, all_builds \in ExportBuilds, guids \in GuidCases,
        selected \in {{}, {"x"}} :
       /\ ProjectAndDatabase(
            [packages |->
               <<[WritePackageA(FALSE, NoFilename, "com.a",
                                CHOOSE d \in DocumentCases :
                                  /\ d.readme = NoFilename
                                  /\ d.documentation = NoFilename)
                    EXCEPT !.imports = <<OverridingImport(guid_of_a)>>],
                 WritePackageB({}, <<OverridingImport(guid_of_b)>>,
                               NoFilename, export_upm)>>,
             builds |-> all_builds,
             version |-> "1.0.0"], selected, guids)
       /\ assets_dirs = AssetsDirs(guids, CHOOSE d \in DocumentCases :
                                            /\ d.readme = NoFilename
                                            /\ d.documentation = NoFilename)
  /\ write_call = [package |-> 0, for_upm |-> FALSE, package_filename |-> NoFilename]
  /\ write_frame = NoWriteFrame
  /\ temporary_dir = "none"
  /\ archives = {}
  /\ export_call \in [for_upm : BOOLEAN]
  /\ export_frame = NoExportFrame
  /\ package_writes = <<>>

SpecExportRun == InitExportRun /\ [][NextProjectWrite]_vars

\* The packages written before package_writes[later] and package_writes[later]
\* have the same GUID for every lookup key they share.
same_guid_as_before(later) ==
  \A earlier \in 1..(later - 1) :
    \A first \in package_writes[earlier].guids, second \in package_writes[later].guids :
      first[1] = second[1] => first[2] = second[2]

\* C29: in a run of project.write that does not fail, a package that has
\* an asset with the lookup key of an asset of a package written before it
\* is written with the same GUID for that key.
C29_LookupKeyKeepsGuid ==
  export_frame.pc = "returned" =>
    \A later \in 1..Len(package_writes) : same_guid_as_before(later)

\* The import groups of all packages give the file the same GUID in their
\* override_metadata, or none.
same_override_of_all_packages ==
  \A p, q \in 1..Len(project_json.packages) :
    \A g \in 1..Len(project_json.packages[p].imports),
       h \in 1..Len(project_json.packages[q].imports) :
      override_metadata(project_json.packages[p].imports[g]).guid
        = override_metadata(project_json.packages[q].imports[h]).guid

\* What the run does keep: C29 for packages whose metadata for the file is
\* the same.
LookupKeyKeepsGuidOfSameMetadata ==
  (export_frame.pc = "returned" /\ same_override_of_all_packages) =>
    \A later \in 1..Len(package_writes) : same_guid_as_before(later)

====
